---- MODULE Spec2Model ----
(***************************************************************************)
(* A state-machine model of the s3bench workload engine.                   *)
(*                                                                         *)
(*   - Runner.Run / Runner.Stop / Runner.worker   (internal/runner)        *)
(*   - Client.DeleteObjectsByMetadata             (internal/s3)            *)
(*                                                                         *)
(* Every goroutine is a process with a program counter; one action is one  *)
(* step between two accesses to shared state (a channel, the atomic op     *)
(* counter, the WaitGroup, the object store).                              *)
(***************************************************************************)
EXTENDS Integers, Sequences, FiniteSets, TLC

(***************************************************************************)
(* Bounds of the model.                                                    *)
(***************************************************************************)
\* largest --concurrency explored
MaxWorkers == 2
\* largest positive --operations cap explored
MaxOperations == 1
\* loop iterations explored when no cap is configured (--operations 0)
MaxCount == 2
\* largest number of objects in the bucket at the start of a cleanup
MaxKeys == 3
\* largest number of keys the store returns in one list page
MaxPage == 2
\* largest --max-retries explored
MaxRetries == 2
\* largest object size explored, in bytes
MaxSize == 2
\* longest --namespace-tag explored, in symbols
MaxTagLen == 3
\* largest maxFailures a circuit breaker is made with
MaxFailures == 2
\* largest resetTimeout a circuit breaker is made with, in clock ticks
MaxTimeout == 1
\* last clock reading explored
MaxTime == 3
\* largest buffer a Read of a payload reader is given, in bytes
MaxChunk == 2
\* longest key template explored, in symbols
MaxTemplateLen == 5
\* largest weight of an op in a mix given to NewScheduler
MaxWeight == 2
\* calls of Next and NextKey followed on one scheduler
MaxEmits == 2
\* calls of ShouldVerify followed
MaxVerifies == 1
\* longest InitialDelay and MaxDelay of a RetryConfig explored, in ticks
MaxDelayTicks == 3

Workers == 1..MaxWorkers

(***************************************************************************)
(* Object metadata written and read by the tool.                           *)
(***************************************************************************)
MetadataKeyCreatedBy == "created-by"
MetadataValueCreatedBy == "s3-workload"
MetadataKeySHA256 == "sha256"

\* the operation kinds
OpTypes == {"put", "get", "delete", "copy", "list", "head", "multipart_put"}

\* NewConfig's default operation mix
DefaultMix == [op \in {"put", "get"} |-> 50]

VARIABLES
    \* ---- configuration and environment
    cfg,            \* the validated Config the Runner was built from
    ctxCancelled,   \* the context given to Run has been cancelled
    \* ---- Runner
    runPC,          \* position of Run
    runErr,         \* what Run returned: "none" while running, "nil", or an error
    cancelCalled,   \* workerCtx's cancel() has been called
    timer,          \* time.After(cfg.Duration): "unset", "armed", "fired"
    stopChan,       \* r.stopChan: "open" or "closed"
    stopPanicked,   \* a Stop() call panicked (close of a closed channel)
    spawned,        \* loop variable i of the spawn loop
    wg,             \* r.wg counter
    opsCounter,     \* r.opsCounter
    activeWorkers,  \* the s3_active_workers gauge
    versioning,     \* the SetVersioning call of Run: "none", "ok" or "failed"
    \* ---- workers
    pc,             \* position of each worker goroutine
    op,             \* the operation a worker has in flight, or "none"
    credit,         \* per worker: successful Waits minus dispatched ops
    waitErr,        \* per worker: a RateLimiter.Wait returned an error
    \* ---- object store and cleanup (DeleteObjectsByMetadata)
    objects,        \* the bucket: key -> [present, underPrefix, meta]
    initial,        \* the bucket as it was when Run was called
    pageSize,       \* keys per list page the store returns
    cleanPC,        \* position of DeleteObjectsByMetadata
    token,          \* continuationToken: 0 is nil, else the last key listed
    page,           \* opErr.Contents of the current page
    truncated,      \* opErr.IsTruncated of the current page
    idx,            \* position of the range loop in page
    deleted,        \* the local counter `deleted`
    cleanErr,       \* DeleteObjectsByMetadata returned an error
    listed,         \* keys the store has returned in a list page
    headMatched,    \* keys whose HEAD metadata matched the sentinel
    deleteIssued,   \* keys for which cleanup issued DeleteObject
    failures,       \* number of failed list / HEAD / DELETE requests
    \* ---- one worker's executeOp calls, followed step by step
    traced,         \* the worker whose executeOp calls are followed, 0 if none
    execCfg,        \* the Config fields the executors read
    gen,            \* the data Generator: [seed, fixed]
    ePC,            \* position inside executeOp: "idle" outside a call
    opTimedOut,     \* the op-timeout deadline of the call's context has passed
    attempt,        \* WithRetry: the loop variable attempt
    delay,          \* WithRetry: the local delay, in milliseconds
    lastErr,        \* WithRetry: the local lastErr
    fnResults,      \* what each call of fn (the Client method) returned
    sleeps,         \* the un-jittered delay of each backoff sleep completed
    opErr,         \* the err the executor returned to executeOp
    put,            \* executePut: [key, size, hash, metadata]
    reader,         \* executePut: the payload reader
    sent,           \* the request body of the last PutObject call
    stored,         \* what the last successful PutObject left in the store
    shouldVerify,   \* executeGet: ShouldVerify(VerifyRate, rng)
    got,            \* executeGet: body and metadata the GET returned
    metrics,        \* the Prometheus counters
    metrics0,       \* the counters as they were when the call began
    \* ---- PrepareMetadata on its own
    hashArg,        \* the argument hash
    namespaceTag,   \* the argument namespaceTag
    metadata,       \* the map returned, NoResult before the call
    \* ---- a CircuitBreaker on its own
    cb,             \* the CircuitBreaker struct
    now,            \* the clock, time.Now()
    cbCall,         \* the last Call: breaker before and after, what happened
    \* ---- payload readers on their own
    genKey,         \* the key both readers were generated for
    stream,         \* the reader that is read and sought
    streamOut,      \* the bytes read from it since the last seek
    streamReads,    \* the buffer lengths of the Read calls that delivered them
    seekFrom,       \* its position before the last Seek, -1 before any
    seekTarget,     \* the position the last Seek asked for
    seekErr,        \* the error of the last Seek
    other,          \* a second reader of the same key and size
    otherOut,       \* the bytes read from it
    otherReads,     \* the buffer lengths of its Read calls
    \* ---- a KeyGenerator on its own
    kg,             \* the KeyGenerator struct
    keySeq,         \* the argument seq of Generate
    keyOut,         \* the key returned, empty before the call
    \* ---- a Scheduler on its own
    mixIn,          \* the mix as given, before Config.Validate
    mixArg,         \* cfg.Mix, the argument mix of NewScheduler
    schedPC,        \* "new" before NewScheduler, then "ready" or "failed"
    sched,          \* the Scheduler struct; draws counts what its rng gave
    emitted,        \* what Next and NextKey have returned, in order
    verifyRate,     \* cfg.VerifyRate, in hundredths
    verifies,       \* number of ShouldVerify calls made
    lastVerify,     \* the last ShouldVerify call: the draw and the result
    \* ---- WithRetry on its own
    wr              \* its cfg, its locals, the results of fn and the backoffs slept

envVars == <<cfg, ctxCancelled>>
runVars == <<runPC, runErr, cancelCalled, timer, stopChan, stopPanicked,
             spawned, wg, opsCounter, activeWorkers, versioning>>
workerVars == <<pc, op, credit, waitErr>>
storeVars == <<objects, initial, pageSize>>
cleanVars == <<cleanPC, token, page, truncated, idx, deleted, cleanErr,
               listed, headMatched, deleteIssued, failures>>
execVars == <<traced, execCfg, gen, ePC, opTimedOut, attempt, delay, lastErr,
              fnResults, sleeps, opErr, put, reader, sent, stored,
              shouldVerify, got, metrics, metrics0>>
metaVars == <<hashArg, namespaceTag, metadata>>
breakerVars == <<cb, now, cbCall>>
readerVars == <<genKey, stream, streamOut, streamReads, seekFrom, seekTarget,
                seekErr, other, otherOut, otherReads>>
keyVars == <<kg, keySeq, keyOut>>
schedVars == <<mixIn, mixArg, schedPC, sched, emitted, verifyRate, verifies, lastVerify>>
retryVars == <<wr>>
unitVars == <<breakerVars, readerVars, keyVars, schedVars, retryVars>>
callVars == <<execVars, metaVars, unitVars>>
vars == <<envVars, runVars, workerVars, storeVars, cleanVars, callVars>>

(***************************************************************************)
(* The object store as the client sees it.                                 *)
(***************************************************************************)
\* user metadata of an object: a map that may or may not hold created-by
NoMeta == [k \in {} |-> MetadataValueCreatedBy]
MetaOf(v) == [k \in {MetadataKeyCreatedBy} |-> v]
Metas == {NoMeta, MetaOf(MetadataValueCreatedBy), MetaOf("other")}

ObjectStates == [present : {TRUE}, underPrefix : BOOLEAN, meta : Metas]

\* every bucket content of at most MaxKeys objects; keys are 1..n in
\* lexicographic order
Stores == UNION {[1..n -> ObjectStates] : n \in 0..MaxKeys}

\* a bucket with one tool-made object and one foreign object under the
\* prefix, used where the bucket content is not what is explored
SampleStore ==
    <<[present |-> TRUE, underPrefix |-> TRUE, meta |-> MetaOf(MetadataValueCreatedBy)],
      [present |-> TRUE, underPrefix |-> TRUE, meta |-> MetaOf("other")]>>

Min(a, b) == IF a < b THEN a ELSE b

RECURSIVE Ascending(_)
\* the keys of S in ascending order
Ascending(S) ==
    IF S = {} THEN <<>>
    ELSE LET m == CHOOSE x \in S : \A y \in S : x <= y
         IN  <<m>> \o Ascending(S \ {m})

\* ListObjectsV2(Prefix, ContinuationToken): the present keys under the
\* prefix after the token, in key order, at most pageSize of them
ListObjectsV2(objs, tok, size) ==
    LET all == Ascending({k \in DOMAIN objs :
                            objs[k].present /\ objs[k].underPrefix /\ k > tok})
        n   == Min(size, Len(all))
    IN  [contents    |-> SubSeq(all, 1, n),
         isTruncated |-> Len(all) > n,
         next        |-> IF n = 0 THEN tok ELSE all[n]]

\* a variant that tests only that the key is there
MetadataMatchesKeyOnly(md, key, value) ==
    key \in DOMAIN md

\* `val, ok := head.Metadata[metadataKey]; ok && val == metadataValue`
MetadataMatches(md, key, value) ==
    key \in DOMAIN md /\ md[key] = value

(***************************************************************************)
(* Strings.  A string is a sequence of symbols; a metadata key, a word of  *)
(* an error message or a separator character is one symbol.                *)
(***************************************************************************)
\* the error value nil
NilErr == <<>>

\* fmt.Errorf("<prefix>: %w", err)
Errorf(prefix, err) == <<prefix>> \o err

\* contains(s, substr), for a substr of one symbol
contains(s, substr) == \E i \in 1..Len(s) : s[i] = substr

\* the substrings isRetryable looks for
RetryableSubstrings ==
    {"connection refused", "connection reset", "broken pipe", "timeout",
     "deadline exceeded", "SlowDown", "ServiceUnavailable", "InternalError",
     "RequestTimeout"}

\* a variant that sends every error round the retry loop
isRetryableAlways(err) == err # NilErr

\* isRetryable: the message holds one of the retryable substrings
isRetryable(err) ==
    /\ err # NilErr
    /\ \E substr \in RetryableSubstrings : contains(err, substr)

\* ctx.Err() of a cancelled context and of one whose deadline passed
Canceled == <<"context", "canceled">>
DeadlineExceeded == <<"context", "deadline exceeded">>

\* errors the object store answers a request with, one terminal and one
\* retryable
StoreErrors == {<<"AccessDenied">>, <<"SlowDown">>}

\* the message each Client method wraps a failed request in
FailedPrefix ==
    [put |-> "put failed", get |-> "get failed", delete |-> "delete failed",
     copy |-> "copy failed", list |-> "list failed", head |-> "head failed"]

\* DefaultRetryConfig(), delays in milliseconds
DefaultRetryConfig ==
    [MaxAttempts |-> 3, InitialDelay |-> 100, MaxDelay |-> 30000,
     Multiplier |-> 2, Jitter |-> TRUE]

RECURSIVE SplitLoop(_, _, _, _, _)
\* the loop of splitString: i is the position in s, current the part being
\* built, result the parts closed so far
SplitLoop(s, sep, i, current, result) ==
    IF i > Len(s)
      THEN IF current # <<>> \/ Len(result) = 0
             THEN Append(result, current)
             ELSE result
      ELSE IF s[i] = sep
             THEN SplitLoop(s, sep, i + 1, <<>>, Append(result, current))
             ELSE SplitLoop(s, sep, i + 1, Append(current, s[i]), result)

splitString(s, sep) == SplitLoop(s, sep, 1, <<>>, <<>>)

\* the characters trim removes
Blank == {" ", "\t"}

RECURSIVE TrimStart(_)
TrimStart(s) ==
    IF s # <<>> /\ Head(s) \in Blank THEN TrimStart(Tail(s)) ELSE s

RECURSIVE TrimEnd(_)
TrimEnd(s) ==
    IF s # <<>> /\ s[Len(s)] \in Blank
      THEN TrimEnd(SubSeq(s, 1, Len(s) - 1))
      ELSE s

trim(s) == TrimEnd(TrimStart(s))

\* the parts between commas, trimmed, the empty ones dropped
splitCommaSeparated(s) ==
    LET parts == splitString(s, ",")
        trimmed == [i \in 1..Len(parts) |-> trim(parts[i])]
    IN  SelectSeq(trimmed, LAMBDA part : part # <<>>)

\* the parts between equal signs, trimmed
splitEqual(s) ==
    LET parts == splitString(s, "=")
    IN  [i \in 1..Len(parts) |-> trim(parts[i])]

\* a map[string]string
EmptyMap == [k \in {} |-> <<>>]
MapPut(m, k, v) == [x \in (DOMAIN m) \cup {k} |-> IF x = k THEN v ELSE m[x]]

RECURSIVE SplitTagLoop(_, _, _)
\* the loop of splitTag over the pairs: `if len(kv) == 2 { result[kv[0]] = kv[1] }`
SplitTagLoop(pairs, i, result) ==
    IF i > Len(pairs)
      THEN result
      ELSE LET kv == splitEqual(pairs[i])
           IN  SplitTagLoop(pairs, i + 1,
                            IF Len(kv) = 2 THEN MapPut(result, kv[1], kv[2])
                                           ELSE result)

splitTag(tag) == SplitTagLoop(splitCommaSeparated(tag), 1, EmptyMap)

\* PrepareMetadata: sha256 and created-by first, then every pair of the tag
\* is stored over them
PrepareMetadata(hash, tag) ==
    LET base  == MapPut(MapPut(EmptyMap, <<MetadataKeySHA256>>, hash),
                        <<MetadataKeyCreatedBy>>, <<MetadataValueCreatedBy>>)
        parts == splitTag(tag)
    IN  IF tag # <<>>
          THEN [k \in (DOMAIN base) \cup (DOMAIN parts) |->
                    IF k \in DOMAIN parts THEN parts[k] ELSE base[k]]
          ELSE base

(***************************************************************************)
(* Payloads and digests.                                                   *)
(***************************************************************************)
\* the values of a byte
Bytes == 0..3

RECURSIVE Sha256(_)
\* the digest of a byte sequence; no two sequences share one
Sha256(bytes) ==
    IF bytes = <<>> THEN 0
    ELSE (Head(bytes) + 1) + 5 * Sha256(Tail(bytes))

HexDigits ==
    <<"0", "1", "2", "3", "4", "5", "6", "7", "8", "9", "a", "b", "c", "d", "e", "f">>

RECURSIVE EncodeToString(_)
\* hex.EncodeToString of a digest: its hexadecimal digits, high ones first
EncodeToString(n) ==
    IF n < 16 THEN <<HexDigits[n + 1]>>
    ELSE EncodeToString(n \div 16) \o <<HexDigits[(n % 16) + 1]>>

RECURSIVE Xor(_, _)
\* a ^ b
Xor(a, b) ==
    IF a = 0 THEN b
    ELSE IF b = 0 THEN a
    ELSE (((a % 2) + (b % 2)) % 2) + 2 * Xor(a \div 2, b \div 2)

\* the first bytes of sha256.Sum256(key), as newRandomReader mixes them
KeySeed(key) == Sha256(<<key>>) % 4

RECURSIVE RngState(_, _)
\* the source of rand.New(rand.NewSource(seed)) after i bytes were drawn
RngState(seed, i) ==
    IF i = 0 THEN seed % 16 ELSE (5 * RngState(seed, i - 1) + 3) % 16

\* the i-th byte rng.Read delivers after the rng was made from seed
RngByte(seed, i) == RngState(seed, i) \div 4

\* newRandomReader(key, baseSeed, size)
newRandomReader(key, baseSeed, size) ==
    [random |-> TRUE, seed |-> Xor(baseSeed, KeySeed(key)), pattern |-> <<>>,
     size |-> size, position |-> 0, rngPos |-> 0]

\* newFixedReader(pattern, size)
newFixedReader(pattern, size) ==
    [random |-> FALSE, seed |-> 0, pattern |-> pattern,
     size |-> size, position |-> 0, rngPos |-> 0]

\* Generator.Generate
Generate(g, key, size) ==
    IF g.seed # 0 THEN newRandomReader(key, g.seed, size)
    ELSE IF Len(g.fixed) > 0 THEN newFixedReader(g.fixed, size)
    ELSE newFixedReader(<<0>>, size)

\* a variant whose every call draws from an rng made anew
ReadFromFreshRng(r, n) ==
    LET remaining == IF r.position >= r.size THEN 0 ELSE r.size - r.position
        toRead    == Min(n, remaining)
    IN  [bytes  |-> [i \in 1..toRead |->
                        IF r.random
                          THEN RngByte(r.seed, i)
                          ELSE r.pattern[((r.position + i - 1) % Len(r.pattern)) + 1]],
         reader |-> [r EXCEPT !.position = @ + toRead,
                              !.rngPos = IF r.random THEN @ + toRead ELSE @]]

\* Read calls that ask for n bytes in all: the bytes delivered and the
\* reader afterwards (the random reader draws them from its rng in order,
\* the fixed reader takes them from the pattern at the position)
Read(r, n) ==
    LET remaining == IF r.position >= r.size THEN 0 ELSE r.size - r.position
        toRead    == Min(n, remaining)
    IN  [bytes  |-> [i \in 1..toRead |->
                        IF r.random
                          THEN RngByte(r.seed, r.rngPos + i)
                          ELSE r.pattern[((r.position + i - 1) % Len(r.pattern)) + 1]],
         reader |-> [r EXCEPT !.position = @ + toRead,
                              !.rngPos = IF r.random THEN @ + toRead ELSE @]]

\* reading to EOF, as io.Copy and the HTTP client do
ReadAll(r) == Read(r, r.size)

\* the whence values of io.Seeker
Whences == {"SeekStart", "SeekCurrent", "SeekEnd"}

\* randomReader.Seek and fixedReader.Seek: the reader afterwards, the
\* position returned and the error. The random reader caps the position at
\* size, makes its rng anew when the position is 0, makes it anew and reads
\* up to the position when the position is behind the current one, and
\* otherwise moves the position only; the fixed reader refuses a position
\* beyond size
Seek(r, offset, whence) ==
    LET base   == IF whence = "SeekStart" THEN 0
                  ELSE IF whence = "SeekCurrent" THEN r.position
                  ELSE r.size
        newPos == base + offset
    IN  IF newPos < 0
          THEN [reader |-> r, pos |-> 0, err |-> <<"negative position">>]
          ELSE IF r.random
                 THEN LET capped == Min(newPos, r.size)
                          moved  == IF capped = 0
                                      THEN [r EXCEPT !.position = 0, !.rngPos = 0]
                                      ELSE IF capped < r.position
                                             THEN [r EXCEPT !.position = capped,
                                                            !.rngPos = capped]
                                             ELSE [r EXCEPT !.position = capped]
                      IN  [reader |-> moved, pos |-> capped, err |-> NilErr]
                 ELSE IF newPos > r.size
                        THEN [reader |-> r, pos |-> 0,
                              err |-> <<"position beyond size">>]
                        ELSE [reader |-> [r EXCEPT !.position = newPos],
                              pos |-> newPos, err |-> NilErr]

\* Seek(offset, io.SeekStart), as executePut and GenerateAndHash call it
SeekStart(r, offset) == Seek(r, offset, "SeekStart").reader

\* Generator.GenerateAndHash: the reader is read to EOF into the hash and
\* then sought back to the start
GenerateAndHash(g, key, size) ==
    LET all == ReadAll(Generate(g, key, size))
    IN  [reader |-> SeekStart(all.reader, 0),
         hash   |-> EncodeToString(Sha256(all.bytes))]

\* Verifier.Verify
Verify(body, expectedHash) ==
    IF EncodeToString(Sha256(body)) # expectedHash
      THEN <<"hash mismatch">>
      ELSE NilErr

\* Verifier.VerifyWithMetadata
VerifyWithMetadata(body, md) ==
    IF <<MetadataKeySHA256>> \notin DOMAIN md
      THEN <<"no hash found in metadata">>
      ELSE Verify(body, md[<<MetadataKeySHA256>>])

(***************************************************************************)
(* The metrics registry.                                                   *)
(***************************************************************************)
Statuses == {"success", "error"}

\* NewMetrics(): every counter at zero
NewMetrics ==
    [ops |-> [l \in OpTypes \X Statuses |-> 0],
     bytesWritten |-> 0, bytesRead |-> 0,
     verifyFailures |-> 0, verifyTotal |-> 0,
     retries |-> [o \in OpTypes |-> 0]]

\* a variant that labels every call a success
RecordOpAlwaysSuccess(m, o, status) == [m EXCEPT !.ops[<<o, "success">>] = @ + 1]

\* RecordOp, RecordBytesWritten, RecordBytesRead, RecordVerifyFailure,
\* RecordVerifySuccess, RecordRetry
RecordOp(m, o, status) == [m EXCEPT !.ops[<<o, status>>] = @ + 1]
RecordBytesWritten(m, n) == [m EXCEPT !.bytesWritten = @ + n]
RecordBytesRead(m, n) == [m EXCEPT !.bytesRead = @ + n]
RecordVerifyFailure(m) == [m EXCEPT !.verifyFailures = @ + 1, !.verifyTotal = @ + 1]
RecordVerifySuccess(m) == [m EXCEPT !.verifyTotal = @ + 1]
RecordRetry(m, o) == [m EXCEPT !.retries[o] = @ + 1]

(***************************************************************************)
(* The circuit breaker.                                                    *)
(***************************************************************************)
StateClosed == "closed"
StateOpen == "open"
StateHalfOpen == "half-open"

\* NewCircuitBreaker(maxFailures, resetTimeout); the zero lastFailure is
\* the clock's first reading
NewCircuitBreaker(maxFailures, resetTimeout) ==
    [maxFailures |-> maxFailures, resetTimeout |-> resetTimeout,
     failures |-> 0, lastFailure |-> 0, state |-> StateClosed]

\* fmt.Errorf("circuit breaker is open")
CircuitOpen == <<"circuit breaker is open">>

\* a variant of the state check that lets every call through
AdmitAlways(c, t) == [breaker |-> c, rejected |-> FALSE]

\* the state check Call begins with, at clock reading t: an open breaker
\* whose resetTimeout has passed becomes half-open with no failures, an open
\* one whose resetTimeout has not is left alone and the call is rejected
Admit(c, t) ==
    IF c.state = StateOpen
      THEN IF t - c.lastFailure > c.resetTimeout
             THEN [breaker  |-> [c EXCEPT !.state = StateHalfOpen, !.failures = 0],
                   rejected |-> FALSE]
             ELSE [breaker |-> c, rejected |-> TRUE]
      ELSE [breaker |-> c, rejected |-> FALSE]

\* a variant that opens the breaker one failure late
SettleOpensLate(c, t, err) ==
    IF err # NilErr
      THEN [c EXCEPT !.failures = @ + 1,
                     !.lastFailure = t,
                     !.state = IF c.failures + 1 > c.maxFailures THEN StateOpen ELSE @]
      ELSE [c EXCEPT !.failures = 0, !.state = StateClosed]

\* what Call does with the err of fn, at clock reading t: a failure is
\* counted and dated and opens the breaker at maxFailures, a success closes
\* it and zeroes the count
Settle(c, t, err) ==
    IF err # NilErr
      THEN [c EXCEPT !.failures = @ + 1,
                     !.lastFailure = t,
                     !.state = IF c.failures + 1 >= c.maxFailures THEN StateOpen ELSE @]
      ELSE [c EXCEPT !.failures = 0, !.state = StateClosed]

(***************************************************************************)
(* Object keys. A template is a sequence of symbols: the four characters   *)
(* "{seq" are one symbol, every other character is a symbol of its own.    *)
(***************************************************************************)
\* NewKeyGenerator(prefix, template, keys)
NewKeyGenerator(prefix, template, keys) ==
    [prefix |-> prefix, template |-> template, keys |-> keys]

Digits == <<"0", "1", "2", "3", "4", "5", "6", "7", "8", "9">>

RECURSIVE Itoa(_)
\* strconv.Itoa(n) for n >= 0
Itoa(n) ==
    IF n < 10 THEN <<Digits[n + 1]>>
    ELSE Itoa(n \div 10) \o <<Digits[(n % 10) + 1]>>

\* the value of a decimal digit
DigitValue(d) == CHOOSE v \in 0..9 : Digits[v + 1] = d

RECURSIVE AtoiLoop(_, _, _)
AtoiLoop(s, i, acc) ==
    IF i > Len(s) THEN acc
    ELSE AtoiLoop(s, i + 1, 10 * acc + DigitValue(s[i]))

\* strconv.Atoi(s): the value, or err when s is empty or holds a symbol
\* that is not a digit
Atoi(s) ==
    IF s = <<>> \/ \E i \in 1..Len(s) : \A v \in 1..10 : Digits[v] # s[i]
      THEN [value |-> 0, err |-> TRUE]
      ELSE [value |-> AtoiLoop(s, 1, 0), err |-> FALSE]

\* fmt.Sprintf("%0*d", width, n) for n >= 0
SprintfPadded(width, n) ==
    LET d == Itoa(n)
    IN  [i \in 1..(IF width > Len(d) THEN width - Len(d) ELSE 0) |-> "0"] \o d

\* a variant that never pads
replacePlaceholderUnpadded(template, seq) ==
    LET starts == {i \in 1..Len(template) : template[i] = "{seq"}
    IN  IF starts = {} THEN template
        ELSE LET start == CHOOSE i \in starts : \A j \in starts : i <= j
                 ends  == {i \in start..Len(template) : template[i] = "}"}
             IN  IF ends = {} THEN template
                 ELSE LET end == CHOOSE i \in ends : \A j \in ends : i <= j
                      IN  SubSeq(template, 1, start - 1) \o Itoa(seq)
                            \o SubSeq(template, end + 1, Len(template))

\* replacePlaceholder: the first "{seq" and the first "}" from there on
\* bound the placeholder; "{seq}" becomes the decimal of seq, "{seq:N}" with
\* a width N > 0 the decimal padded with zeros to N, anything else the
\* decimal; with no "{seq" or no "}" after it the template is returned
replacePlaceholder(template, seq) ==
    LET starts == {i \in 1..Len(template) : template[i] = "{seq"}
    IN  IF starts = {} THEN template
        ELSE LET start == CHOOSE i \in starts : \A j \in starts : i <= j
                 ends  == {i \in start..Len(template) : template[i] = "}"}
             IN  IF ends = {} THEN template
                 ELSE LET end         == CHOOSE i \in ends : \A j \in ends : i <= j
                          placeholder == SubSeq(template, start, end)
                          format      == SubSeq(placeholder, 3, Len(placeholder) - 1)
                          width       == Atoi(format)
                          formatted   ==
                              IF placeholder = <<"{seq", "}">> THEN Itoa(seq)
                              ELSE IF placeholder[2] = ":"
                                     THEN IF ~width.err /\ width.value > 0
                                            THEN SprintfPadded(width.value, seq)
                                            ELSE Itoa(seq)
                                     ELSE Itoa(seq)
                      IN  SubSeq(template, 1, start - 1) \o formatted
                            \o SubSeq(template, end + 1, Len(template))

\* KeyGenerator.Generate(seq)
KeyGenerate(k, seq) == k.prefix \o replacePlaceholder(k.template, seq)

(***************************************************************************)
(* The scheduler. Rates and PRNG draws in [0, 1) are in hundredths.        *)
(***************************************************************************)
\* the Scheduler struct before NewScheduler returned one
NoScheduler == [ops |-> <<>>, weights |-> <<>>, totalKeys |-> 0, seed |-> 0,
                draws |-> 0]

RECURSIVE Cumulative(_, _)
\* the cumulative weights of the ops in the order they were appended
Cumulative(mix, ops) ==
    IF ops = <<>> THEN <<>>
    ELSE LET front == Cumulative(mix, SubSeq(ops, 1, Len(ops) - 1))
         IN  Append(front, (IF front = <<>> THEN 0 ELSE front[Len(front)])
                              + mix[ops[Len(ops)]])

RECURSIVE MixTotal(_, _)
\* `for _, pct := range mix { total += pct }` over the keys in ks
MixTotal(mix, ks) ==
    IF ks = {} THEN 0
    ELSE LET k == CHOOSE x \in ks : TRUE
         IN  mix[k] + MixTotal(mix, ks \ {k})

\* the orders a range over the map can visit the ops of nonzero weight in
RangeOrders(mix) ==
    LET nz == {o \in DOMAIN mix : mix[o] # 0}
    IN  {f \in [1..Cardinality(nz) -> nz] :
            \A i, j \in 1..Cardinality(nz) : f[i] = f[j] => i = j}

\* s.rng.Intn(n): the value the scheduler's rng delivers on its next draw
Intn(s, n) == RngState(s.seed, s.draws + 1) % n

\* a variant of the loop that compares with `r <= weight`
OpForDrawInclusive(s, r) ==
    LET hits == {i \in 1..Len(s.weights) : r <= s.weights[i]}
    IN  IF hits = {} THEN s.ops[Len(s.ops)]
        ELSE s.ops[CHOOSE i \in hits : \A j \in hits : i <= j]

\* `for i, weight := range s.weights { if r < weight { return s.ops[i] } }
\* return s.ops[len(s.ops)-1]`
OpForDraw(s, r) ==
    LET hits == {i \in 1..Len(s.weights) : r < s.weights[i]}
    IN  IF hits = {} THEN s.ops[Len(s.ops)]
        ELSE s.ops[CHOOSE i \in hits : \A j \in hits : i <= j]

\* the op Scheduler.Next returns: the fallback without ops, the only op
\* without a draw, else the first op whose cumulative weight is above the
\* number drawn
NextOp(s) ==
    IF Len(s.ops) = 0 THEN "get"
    ELSE IF Len(s.ops) = 1 THEN s.ops[1]
    ELSE OpForDraw(s, Intn(s, s.weights[Len(s.weights)]))

\* what ShouldVerify returns for a rate, given the rng.Float64() it would
\* draw
ShouldVerifyResult(rate, draw) ==
    IF rate <= 0 THEN FALSE
    ELSE IF rate >= 100 THEN TRUE
    ELSE draw < rate

(***************************************************************************)
(* WithRetry on its own, for any RetryConfig. Delays are in ticks.         *)
(***************************************************************************)
\* `delay = time.Duration(float64(delay) * cfg.Multiplier); if delay >
\* cfg.MaxDelay { delay = cfg.MaxDelay }`
NextDelay(c, d) == Min(d * c.Multiplier, c.MaxDelay)

\* the backoffs `time.Duration(float64(backoff) * (0.5 + rand.Float64()*0.5))`
\* can give: from half the delay up to, and not including, the delay
Jittered(d) == {b \in 0..d : d \div 2 <= b /\ (b < d \/ d = 0)}

\* the locals of WithRetry on entry: `var lastErr error; delay :=
\* cfg.InitialDelay; attempt := 1`
EnterWithRetry(c) ==
    [cfg |-> c, pc |-> "loop", attempt |-> 1, delay |-> c.InitialDelay,
     lastErr |-> NilErr, calls |-> <<>>, slept |-> <<>>, err |-> NilErr]

(***************************************************************************)
(* Configurations.                                                         *)
(***************************************************************************)
Configs ==
    [CreateBucket : BOOLEAN,
     Versioning   : {"on", "off", "keep"},
     Cleanup      : BOOLEAN,
     Concurrency  : 1..MaxWorkers,
     Operations   : 0..MaxOperations,
     Duration     : {0, 1},
     Mix          : {DefaultMix}]

\* workerCtx.Done() is closed: the parent was cancelled or cancel() was called
WorkerCtxDone == ctxCancelled \/ cancelCalled

\* the state New() leaves the Runner in, before Run's first statement
RunnerInit ==
    /\ ctxCancelled = FALSE
    /\ runErr = "none"
    /\ cancelCalled = FALSE
    /\ timer = "unset"
    /\ stopChan = "open"
    /\ stopPanicked = FALSE
    /\ spawned = 0
    /\ wg = 0
    /\ opsCounter = 0
    /\ activeWorkers = 0
    /\ versioning = "none"
    /\ pc = [w \in Workers |-> "unborn"]
    /\ op = [w \in Workers |-> "none"]
    /\ credit = [w \in Workers |-> 0]
    /\ waitErr = [w \in Workers |-> FALSE]

\* the locals of DeleteObjectsByMetadata before its first statement
CleanupIdle ==
    /\ token = 0
    /\ page = <<>>
    /\ truncated = FALSE
    /\ idx = 0
    /\ deleted = 0
    /\ cleanErr = FALSE
    /\ listed = {}
    /\ headMatched = {}
    /\ deleteIssued = {}
    /\ failures = 0

\* the Config fields the executors read, and NewConfig's values for them
ExecConfigs ==
    [MaxRetries   : 0..MaxRetries,
     RetryBackoff : {100, 500},
     KeepData     : BOOLEAN,
     NamespaceTag : {<<>>, <<MetadataKeySHA256, "=", "x">>}]

DefaultExecConfig ==
    [MaxRetries |-> 3, RetryBackoff |-> 100, KeepData |-> FALSE,
     NamespaceTag |-> <<>>]

\* NewGenerator("random:1") and NewGenerator("fixed:0102")
Generators == {[seed |-> 1, fixed |-> <<>>], [seed |-> 0, fixed |-> <<1, 2>>]}

\* NewGenerator("random:42"), NewConfig's pattern
DefaultGenerator == [seed |-> 42, fixed |-> <<>>]

\* the object keys and the request bodies the traced calls use
Keys == {1, 2}
Bodies == {<<1>>, <<2, 1>>}

\* the values the locals of an executor have outside a call
NoPut == [key |-> 0, size |-> 0, hash |-> <<>>, metadata |-> EmptyMap]
NoObject == [key |-> 0, body |-> <<>>, metadata |-> EmptyMap]
NoResponse == [body |-> <<>>, metadata |-> EmptyMap, length |-> 0]
NoResult == EmptyMap

\* what a successful GetObject can return: a body with the metadata of a
\* PUT of that body, of a PUT of another body, or with no metadata
GetResponses ==
    {[body |-> b, metadata |-> m, length |-> Len(b)] :
        b \in Bodies,
        m \in {EmptyMap} \cup {PrepareMetadata(EncodeToString(Sha256(b2)), <<>>) : b2 \in Bodies}}

\* no executeOp call is in progress and no metric was recorded
ExecIdle ==
    /\ ePC = "idle"
    /\ opTimedOut = FALSE
    /\ attempt = 0
    /\ delay = 0
    /\ lastErr = NilErr
    /\ fnResults = <<>>
    /\ sleeps = <<>>
    /\ opErr = NilErr
    /\ put = NoPut
    /\ reader = newFixedReader(<<0>>, 0)
    /\ sent = <<>>
    /\ stored = NoObject
    /\ shouldVerify = FALSE
    /\ got = NoResponse
    /\ metrics = NewMetrics
    /\ metrics0 = NewMetrics

\* PrepareMetadata is not being followed on its own
MetaIdle ==
    /\ hashArg = <<>>
    /\ namespaceTag = <<>>
    /\ metadata = NoResult

\* no Call of a circuit breaker has been made
NoCall == [made |-> FALSE, before |-> NewCircuitBreaker(0, 0), at |-> 0,
           invoked |-> FALSE, fnErr |-> NilErr, result |-> NilErr,
           after |-> NewCircuitBreaker(0, 0)]

\* no circuit breaker is followed: the Runner makes none
BreakerIdle ==
    /\ cb = NewCircuitBreaker(0, 0)
    /\ now = 0
    /\ cbCall = NoCall

\* no payload reader is followed on its own
ReaderIdle ==
    /\ genKey = 0
    /\ stream = newFixedReader(<<0>>, 0)
    /\ streamOut = <<>>
    /\ streamReads = <<>>
    /\ seekFrom = -1
    /\ seekTarget = 0
    /\ seekErr = NilErr
    /\ other = newFixedReader(<<0>>, 0)
    /\ otherOut = <<>>
    /\ otherReads = <<>>

\* no key generator is followed on its own
KeyIdle ==
    /\ kg = NewKeyGenerator(<<>>, <<>>, 1)
    /\ keySeq = 0
    /\ keyOut = <<>>

\* ShouldVerify has not been called
NoVerify == [called |-> FALSE, draw |-> 0, result |-> FALSE]

\* no scheduler is followed on its own
SchedIdle ==
    /\ mixIn = DefaultMix
    /\ mixArg = DefaultMix
    /\ schedPC = "idle"
    /\ sched = NoScheduler
    /\ emitted = <<>>
    /\ verifyRate = 0
    /\ verifies = 0
    /\ lastVerify = NoVerify

\* no WithRetry is followed on its own
RetryIdle == wr = [EnterWithRetry(DefaultRetryConfig) EXCEPT !.pc = "idle"]

\* none of the parts followed on their own is in use
UnitIdle ==
    /\ BreakerIdle
    /\ ReaderIdle
    /\ KeyIdle
    /\ SchedIdle
    /\ RetryIdle

\* no worker's executeOp calls are followed step by step
Untraced ==
    /\ traced = 0
    /\ execCfg = DefaultExecConfig
    /\ gen = DefaultGenerator
    /\ ExecIdle
    /\ MetaIdle
    /\ UnitIdle

Init ==
    /\ cfg \in Configs
    /\ RunnerInit
    /\ runPC = "start"
    /\ objects = SampleStore
    /\ initial = objects
    /\ pageSize = 1
    /\ cleanPC = "idle"
    /\ CleanupIdle
    /\ Untraced

(***************************************************************************)
(* The environment of the Runner: the caller's context, Stop(), the clock. *)
(* What the environment does after Run has returned is not followed.       *)
(***************************************************************************)
\* the caller cancels the context it gave to Run
CancelContext ==
    /\ runPC # "returned"
    /\ ~ctxCancelled
    /\ ctxCancelled' = TRUE
    /\ UNCHANGED <<cfg, runVars, workerVars, storeVars, cleanVars, callVars>>

\* Runner.Stop: close(r.stopChan); closing a closed channel panics in the
\* calling goroutine and leaves the channel, and the Runner, as they were
Stop ==
    /\ runPC # "returned"
    /\ ~stopPanicked
    /\ IF stopChan = "open"
         THEN stopChan' = "closed" /\ UNCHANGED stopPanicked
         ELSE stopPanicked' = TRUE /\ UNCHANGED stopChan
    /\ UNCHANGED <<envVars, runPC, runErr, cancelCalled, timer, spawned, wg,
                   opsCounter, activeWorkers, workerVars, storeVars, cleanVars,
                   versioning, callVars>>

\* the channel of time.After(r.cfg.Duration) delivers
TimerFires ==
    /\ runPC # "returned"
    /\ timer = "armed"
    /\ timer' = "fired"
    /\ UNCHANGED <<envVars, runPC, runErr, cancelCalled, stopChan, stopPanicked,
                   spawned, wg, opsCounter, activeWorkers, workerVars,
                   storeVars, cleanVars,
                   versioning, callVars>>

(***************************************************************************)
(* Runner.Run                                                              *)
(***************************************************************************)
\* `if r.cfg.CreateBucket { if err := CreateBucket(ctx); err != nil { return } }`
RunCreateBucket ==
    /\ runPC = "start"
    /\ \/ /\ runPC' = "versioning"
          /\ UNCHANGED runErr
       \/ /\ cfg.CreateBucket
          /\ runPC' = "returned"
          /\ runErr' = "create bucket"
    /\ UNCHANGED <<envVars, cancelCalled, timer, stopChan, stopPanicked, spawned,
                   wg, opsCounter, activeWorkers, workerVars, storeVars, cleanVars,
                   versioning, callVars>>

\* a variant that returns the SetVersioning error instead of logging it
RunSetVersioningFatal ==
    /\ runPC = "versioning"
    /\ IF cfg.Versioning \in {"on", "off"}
         THEN \/ /\ versioning' = "ok"
                 /\ runPC' = "mode"
                 /\ UNCHANGED runErr
              \/ /\ versioning' = "failed"
                 /\ runPC' = "returned"
                 /\ runErr' = "set versioning"
         ELSE /\ runPC' = "mode"
              /\ UNCHANGED <<versioning, runErr>>
    /\ UNCHANGED <<envVars, cancelCalled, timer, stopChan, stopPanicked,
                   spawned, wg, opsCounter, activeWorkers, workerVars, storeVars,
                   cleanVars, callVars>>

\* `if Versioning == "on" { if err := SetVersioning(ctx, true); err != nil { Warn } }
\*  else if Versioning == "off" { ... SetVersioning(ctx, false) ... }`:
\* with "keep" no call is made; a failed call is logged and Run goes on
RunSetVersioning ==
    /\ runPC = "versioning"
    /\ IF cfg.Versioning \in {"on", "off"}
         THEN versioning' \in {"ok", "failed"}
         ELSE UNCHANGED versioning
    /\ runPC' = "mode"
    /\ UNCHANGED <<envVars, runErr, cancelCalled, timer, stopChan, stopPanicked,
                   spawned, wg, opsCounter, activeWorkers, workerVars, storeVars,
                   cleanVars, callVars>>

\* a variant that goes on to the workload after arming the cleanup
RunModeFallsThrough ==
    /\ runPC = "mode"
    /\ runPC' = "spawn"
    /\ cleanPC' = IF cfg.Cleanup THEN "list" ELSE cleanPC
    /\ timer' = IF cfg.Duration > 0 THEN "armed" ELSE "unset"
    /\ UNCHANGED <<envVars, runErr, cancelCalled, stopChan, stopPanicked, spawned,
                   wg, opsCounter, activeWorkers, workerVars, storeVars,
                   token, page, truncated, idx, deleted, cleanErr, listed,
                   headMatched, deleteIssued, failures,
                   versioning, callVars>>

\* `if r.cfg.Cleanup { return r.runCleanup(ctx) }`; otherwise workerCtx is
\* derived and the duration channel made (it can deliver only if Duration > 0)
RunMode ==
    /\ runPC = "mode"
    /\ IF cfg.Cleanup
         THEN /\ runPC' = "cleanup"
              /\ cleanPC' = "list"
              /\ UNCHANGED timer
         ELSE /\ runPC' = "spawn"
              /\ timer' = IF cfg.Duration > 0 THEN "armed" ELSE "unset"
              /\ UNCHANGED cleanPC
    /\ UNCHANGED <<envVars, runErr, cancelCalled, stopChan, stopPanicked, spawned,
                   wg, opsCounter, activeWorkers, workerVars, storeVars,
                   token, page, truncated, idx, deleted, cleanErr, listed,
                   headMatched, deleteIssued, failures,
                   versioning, callVars>>

\* one turn of `for i := 0; i < Concurrency; i++ { r.wg.Add(1); go r.worker(..) }`
RunSpawn ==
    /\ runPC = "spawn"
    /\ spawned < cfg.Concurrency
    /\ wg' = wg + 1
    /\ pc' = [pc EXCEPT ![spawned + 1] = "spawned"]
    /\ spawned' = spawned + 1
    /\ runPC' = IF spawned + 1 = cfg.Concurrency THEN "select" ELSE "spawn"
    /\ UNCHANGED <<envVars, runErr, cancelCalled, timer, stopChan, stopPanicked,
                   opsCounter, activeWorkers, op, credit, waitErr, storeVars,
                   cleanVars,
                   versioning, callVars>>

\* the select of Run: workerCtx.Done(), r.stopChan, or the duration channel
\* (cancel() is called in the duration case only)
RunSelect ==
    /\ runPC = "select"
    /\ \/ WorkerCtxDone /\ UNCHANGED <<cancelCalled, timer>>
       \/ stopChan = "closed" /\ UNCHANGED <<cancelCalled, timer>>
       \/ timer = "fired" /\ cancelCalled' = TRUE /\ timer' = "read"
    /\ runPC' = "wait"
    /\ UNCHANGED <<envVars, runErr, stopChan, stopPanicked, spawned, wg,
                   opsCounter, activeWorkers, workerVars, storeVars, cleanVars,
                   versioning, callVars>>

\* a variant that returns without r.wg.Wait()
RunWaitWithoutWaiting ==
    /\ runPC = "wait"
    /\ runPC' = "returned"
    /\ runErr' = "nil"
    /\ cancelCalled' = TRUE
    /\ UNCHANGED <<envVars, timer, stopChan, stopPanicked, spawned, wg,
                   opsCounter, activeWorkers, workerVars, storeVars, cleanVars,
                   versioning, callVars>>

\* r.wg.Wait(), then `return nil` (the deferred cancel() runs)
RunWait ==
    /\ runPC = "wait"
    /\ wg = 0
    /\ runPC' = "returned"
    /\ runErr' = "nil"
    /\ cancelCalled' = TRUE
    /\ UNCHANGED <<envVars, timer, stopChan, stopPanicked, spawned, wg,
                   opsCounter, activeWorkers, workerVars, storeVars, cleanVars,
                   versioning, callVars>>

(***************************************************************************)
(* Runner.worker                                                           *)
(***************************************************************************)
\* Scheduler.Next: one of the ops that have a nonzero weight in the mix
SchedulerNext == {o \in DOMAIN cfg.Mix : cfg.Mix[o] > 0}

\* iterations begun whose counter increment is still to come
Pending == Cardinality({w \in Workers : pc[w] \in {"limit", "wait", "dispatch"}})

\* the deferred calls of worker: SetActiveWorkers(0), then r.wg.Done()
WorkerReturns(w) ==
    /\ pc' = [pc EXCEPT ![w] = "done"]
    /\ activeWorkers' = 0
    /\ wg' = wg - 1

\* a variant whose select has no `case <-r.stopChan`
WorkerCheckStopIgnoresStopChan(w) ==
    /\ pc[w] = "top"
    /\ IF WorkerCtxDone
         THEN WorkerReturns(w)
         ELSE /\ cfg.Operations > 0 \/ opsCounter + Pending < MaxCount
              /\ pc' = [pc EXCEPT ![w] = "limit"]
              /\ UNCHANGED <<activeWorkers, wg>>
    /\ UNCHANGED <<envVars, runPC, runErr, cancelCalled, timer, stopChan,
                   stopPanicked, spawned, opsCounter, op, credit, waitErr,
                   storeVars, cleanVars,
                   versioning, callVars>>

\* a variant that goes on to the operation when Wait returns an error
WorkerWaitIgnoresError(w) ==
    /\ pc[w] = "wait"
    /\ \/ /\ pc' = [pc EXCEPT ![w] = "dispatch"]
          /\ credit' = [credit EXCEPT ![w] = @ + 1]
          /\ UNCHANGED waitErr
       \/ /\ WorkerCtxDone
          /\ waitErr' = [waitErr EXCEPT ![w] = TRUE]
          /\ pc' = [pc EXCEPT ![w] = "dispatch"]
          /\ UNCHANGED credit
    /\ UNCHANGED <<envVars, runPC, runErr, cancelCalled, timer, stopChan,
                   stopPanicked, spawned, wg, opsCounter, activeWorkers, op,
                   storeVars, cleanVars,
                   versioning, callVars>>

\* the goroutine starts: its rng is made and SetActiveWorkers(Concurrency) called
WorkerStart(w) ==
    /\ pc[w] = "spawned"
    /\ pc' = [pc EXCEPT ![w] = "top"]
    /\ activeWorkers' = cfg.Concurrency
    /\ UNCHANGED <<envVars, runPC, runErr, cancelCalled, timer, stopChan,
                   stopPanicked, spawned, wg, opsCounter, op, credit, waitErr,
                   storeVars, cleanVars,
                   versioning, callVars>>

\* `select { case <-ctx.Done(): return; case <-r.stopChan: return; default: }`
\* (without a cap the loop is endless: MaxCount bounds the iterations begun)
WorkerCheckStop(w) ==
    /\ pc[w] = "top"
    /\ IF WorkerCtxDone \/ stopChan = "closed"
         THEN WorkerReturns(w)
         ELSE /\ cfg.Operations > 0 \/ opsCounter + Pending < MaxCount
              /\ pc' = [pc EXCEPT ![w] = "limit"]
              /\ UNCHANGED <<activeWorkers, wg>>
    /\ UNCHANGED <<envVars, runPC, runErr, cancelCalled, timer, stopChan,
                   stopPanicked, spawned, opsCounter, op, credit, waitErr,
                   storeVars, cleanVars,
                   versioning, callVars>>

\* `if Operations > 0 { current := atomic.LoadInt64(&r.opsCounter);
\*                       if current >= Operations { return } }`
WorkerCheckLimit(w) ==
    /\ pc[w] = "limit"
    /\ IF cfg.Operations > 0 /\ opsCounter >= cfg.Operations
         THEN WorkerReturns(w)
         ELSE /\ pc' = [pc EXCEPT ![w] = "wait"]
              /\ UNCHANGED <<activeWorkers, wg>>
    /\ UNCHANGED <<envVars, runPC, runErr, cancelCalled, timer, stopChan,
                   stopPanicked, spawned, opsCounter, op, credit, waitErr,
                   storeVars, cleanVars,
                   versioning, callVars>>

\* `if err := r.rateLimiter.Wait(ctx); err != nil { return }`: Wait returns
\* nil, or the context's error once the context is done
WorkerWait(w) ==
    /\ pc[w] = "wait"
    /\ \/ /\ pc' = [pc EXCEPT ![w] = "dispatch"]
          /\ credit' = [credit EXCEPT ![w] = @ + 1]
          /\ UNCHANGED <<activeWorkers, wg, waitErr>>
       \/ /\ WorkerCtxDone
          /\ waitErr' = [waitErr EXCEPT ![w] = TRUE]
          /\ WorkerReturns(w)
          /\ UNCHANGED credit
    /\ UNCHANGED <<envVars, runPC, runErr, cancelCalled, timer, stopChan,
                   stopPanicked, spawned, opsCounter, op, storeVars, cleanVars,
                   versioning, callVars>>

\* atomic.AddInt64(&r.opsCounter, 1); op := r.scheduler.Next(); the call of
\* executeOp under the op-timeout context begins
WorkerDispatch(w) ==
    /\ pc[w] = "dispatch"
    /\ opsCounter' = opsCounter + 1
    /\ \E o \in SchedulerNext : op' = [op EXCEPT ![w] = o]
    /\ credit' = [credit EXCEPT ![w] = @ - 1]
    /\ pc' = [pc EXCEPT ![w] = "exec"]
    /\ UNCHANGED <<envVars, runPC, runErr, cancelCalled, timer, stopChan,
                   stopPanicked, spawned, wg, activeWorkers, waitErr, storeVars,
                   cleanVars,
                   versioning, callVars>>

\* a variant in which a failed operation ends the worker
WorkerOpDoneFailureEndsWorker(w) ==
    /\ pc[w] = "exec"
    /\ w = traced => ePC = "returned"
    /\ ePC' = IF w = traced THEN "idle" ELSE ePC
    /\ op' = [op EXCEPT ![w] = "none"]
    /\ \E failed \in (IF w = traced THEN {opErr # <<>>} ELSE BOOLEAN) :
          IF failed
            THEN WorkerReturns(w)
            ELSE /\ pc' = [pc EXCEPT ![w] = "top"]
                 /\ UNCHANGED <<activeWorkers, wg>>
    /\ UNCHANGED <<envVars, runPC, runErr, cancelCalled, timer, stopChan,
                   stopPanicked, spawned, opsCounter, credit,
                   waitErr, storeVars, cleanVars, versioning, traced, execCfg,
                   gen, opTimedOut, attempt, delay, lastErr, fnResults, sleeps,
                   opErr, put, reader, sent, stored, shouldVerify, got,
                   metrics, metrics0, metaVars, unitVars>>

\* executeOp returns: its err, nil or not, is only logged at debug (executeOp
\* has no result), cancel() of the op context is called and the loop goes
\* round; the calls of the traced worker are followed by the Exec actions
WorkerOpDone(w) ==
    /\ pc[w] = "exec"
    /\ w = traced => ePC = "returned"
    /\ ePC' = IF w = traced THEN "idle" ELSE ePC
    /\ op' = [op EXCEPT ![w] = "none"]
    /\ pc' = [pc EXCEPT ![w] = "top"]
    /\ UNCHANGED <<envVars, runPC, runErr, cancelCalled, timer, stopChan,
                   stopPanicked, spawned, wg, opsCounter, activeWorkers, credit,
                   waitErr, storeVars, cleanVars, versioning, traced, execCfg, gen, opTimedOut, attempt,
                   delay, lastErr, fnResults, sleeps, opErr, put, reader, sent,
                   stored, shouldVerify, got, metrics, metrics0, metaVars, unitVars>>

Worker(w) ==
    \/ WorkerStart(w)
    \/ WorkerCheckStop(w)
    \/ WorkerCheckLimit(w)
    \/ WorkerWait(w)
    \/ WorkerDispatch(w)
    \/ WorkerOpDone(w)

(***************************************************************************)
(* Client.DeleteObjectsByMetadata, called by Runner.runCleanup             *)
(***************************************************************************)
\* a variant that stops after the first page whatever IsTruncated says
NextObjectFirstPageOnly ==
    IF idx < Len(page)
      THEN /\ idx' = idx + 1
           /\ cleanPC' = "head"
      ELSE /\ idx' = 0
           /\ cleanPC' = "done"

\* the range loop moves to the next listed object; after the last one
\* `if !IsTruncated { break }; continuationToken = NextContinuationToken`
NextObject ==
    IF idx < Len(page)
      THEN /\ idx' = idx + 1
           /\ cleanPC' = "head"
      ELSE /\ idx' = 0
           /\ cleanPC' = IF truncated THEN "list" ELSE "done"

\* ListObjectsV2(prefix, continuationToken); an error ends the cleanup
CleanupList ==
    /\ cleanPC = "list"
    /\ \/ /\ cleanErr' = TRUE
          /\ failures' = failures + 1
          /\ cleanPC' = "done"
          /\ UNCHANGED <<token, page, truncated, idx, listed>>
       \/ LET result == ListObjectsV2(objects, token, pageSize)
          IN  /\ page' = result.contents
              /\ truncated' = result.isTruncated
              /\ token' = result.next
              /\ listed' = listed \cup {result.contents[i] : i \in 1..Len(result.contents)}
              /\ IF Len(result.contents) > 0
                   THEN idx' = 1 /\ cleanPC' = "head"
                   ELSE idx' = 0 /\ cleanPC' = IF result.isTruncated THEN "list" ELSE "done"
              /\ UNCHANGED <<cleanErr, failures>>
    /\ UNCHANGED <<envVars, runVars, workerVars, storeVars, deleted, headMatched,
                   deleteIssued, callVars>>

\* HeadObject(key) of the listed object; an error skips the object; the
\* object is deleted only if its metadata holds created-by = s3-workload
CleanupHead ==
    /\ cleanPC = "head"
    /\ \/ /\ failures' = failures + 1
          /\ NextObject
          /\ UNCHANGED headMatched
       \/ /\ objects[page[idx]].present
          /\ IF MetadataMatches(objects[page[idx]].meta, MetadataKeyCreatedBy,
                                MetadataValueCreatedBy)
               THEN /\ headMatched' = headMatched \cup {page[idx]}
                    /\ cleanPC' = "delete"
                    /\ UNCHANGED idx
               ELSE /\ NextObject
                    /\ UNCHANGED headMatched
          /\ UNCHANGED failures
    /\ UNCHANGED <<envVars, runVars, workerVars, storeVars, token, page,
                   truncated, deleted, cleanErr, listed, deleteIssued, callVars>>

\* c.DeleteObject(key); on success deleted++; on an error the object is
\* skipped (the store may or may not have removed it)
CleanupDelete ==
    /\ cleanPC = "delete"
    /\ deleteIssued' = deleteIssued \cup {page[idx]}
    /\ \/ /\ objects' = [objects EXCEPT ![page[idx]].present = FALSE]
          /\ deleted' = deleted + 1
          /\ UNCHANGED failures
       \/ /\ failures' = failures + 1
          /\ \/ UNCHANGED objects
             \/ objects' = [objects EXCEPT ![page[idx]].present = FALSE]
          /\ UNCHANGED deleted
    /\ NextObject
    /\ UNCHANGED <<envVars, runVars, workerVars, initial, pageSize, token, page,
                   truncated, cleanErr, listed, headMatched, callVars>>

\* runCleanup returns: "cleanup failed" on an error, else nil
RunCleanupReturn ==
    /\ runPC = "cleanup"
    /\ cleanPC = "done"
    /\ runPC' = "returned"
    /\ runErr' = IF cleanErr THEN "cleanup failed" ELSE "nil"
    /\ UNCHANGED <<envVars, cancelCalled, timer, stopChan, stopPanicked, spawned,
                   wg, opsCounter, activeWorkers, workerVars, storeVars, cleanVars,
                   versioning, callVars>>

(***************************************************************************)
(* Runner.executeOp of the traced worker: the executors, WithRetry and the *)
(* Client methods they call.                                               *)
(***************************************************************************)
\* the op kinds the switch of executeOp has a case for
Executors == {"put", "get", "delete", "copy", "list", "head"}

\* ctx.Err() of the call's context: the worker context with the op timeout
OpCtxErr ==
    IF opTimedOut THEN DeadlineExceeded
    ELSE IF WorkerCtxDone THEN Canceled
    ELSE NilErr

\* what a request to the object store can come back with
StoreResults ==
    {NilErr} \cup StoreErrors \cup (IF OpCtxErr # NilErr THEN {OpCtxErr} ELSE {})

\* the RetryConfig every executor builds
RetryCfg == [DefaultRetryConfig EXCEPT !.MaxAttempts = execCfg.MaxRetries]

\* a variant that counts a retry for every call, failed or not
ExecuteReturnsCountsEvery(err, m) ==
    /\ opErr' = err
    /\ metrics' = RecordRetry(m, op[traced])
    /\ ePC' = "returned"

\* the executor after WithRetry returned err:
\* `if err != nil { r.metrics.RecordRetry(op) }; return err`
ExecuteReturns(err, m) ==
    /\ opErr' = err
    /\ metrics' = IF err # NilErr THEN RecordRetry(m, op[traced]) ELSE m
    /\ ePC' = "returned"

\* a variant whose executeDelete does not look at KeepData
ExecStartIgnoresKeepData ==
    /\ traced \in Workers
    /\ pc[traced] = "exec"
    /\ ePC = "idle"
    /\ metrics0' = metrics
    /\ opTimedOut' = FALSE
    /\ fnResults' = <<>>
    /\ sleeps' = <<>>
    /\ lastErr' = NilErr
    /\ attempt' = 1
    /\ delay' = RetryCfg.InitialDelay
    /\ sent' = <<>>
    /\ got' = NoResponse
    /\ IF op[traced] = "put"
         THEN \E key \in Keys, size \in 1..MaxSize :
                 LET gh == GenerateAndHash(gen, key, size)
                 IN  /\ put' = [key |-> key, size |-> size, hash |-> gh.hash,
                                metadata |-> PrepareMetadata(gh.hash, execCfg.NamespaceTag)]
                     /\ reader' = gh.reader
         ELSE /\ put' = NoPut
              /\ reader' = newFixedReader(<<0>>, 0)
    /\ shouldVerify' \in (IF op[traced] = "get" THEN BOOLEAN ELSE {FALSE})
    /\ IF op[traced] \notin Executors
         THEN /\ opErr' = NilErr
              /\ ePC' = "returned"
              /\ UNCHANGED metrics
         ELSE IF 1 <= RetryCfg.MaxAttempts
                THEN /\ opErr' = NilErr
                     /\ ePC' = "attempt"
                     /\ UNCHANGED metrics
                ELSE ExecuteReturns(Errorf("max retries exceeded", NilErr), metrics)
    /\ UNCHANGED <<envVars, runVars, workerVars, storeVars, cleanVars, traced,
                   execCfg, gen, stored, metaVars, unitVars>>

\* executeOp up to the first call of fn: the key is drawn, the executor of
\* the op is entered (none for an op without a case, and executeDelete
\* returns nil at once under KeepData), executePut makes the payload, its
\* hash and the metadata, executeGet draws ShouldVerify, and WithRetry
\* enters its loop, which it leaves at once when MaxAttempts < 1
ExecStart ==
    /\ traced \in Workers
    /\ pc[traced] = "exec"
    /\ ePC = "idle"
    /\ metrics0' = metrics
    /\ opTimedOut' = FALSE
    /\ fnResults' = <<>>
    /\ sleeps' = <<>>
    /\ lastErr' = NilErr
    /\ attempt' = 1
    /\ delay' = RetryCfg.InitialDelay
    /\ sent' = <<>>
    /\ got' = NoResponse
    /\ IF op[traced] = "put"
         THEN \E key \in Keys, size \in 1..MaxSize :
                 LET gh == GenerateAndHash(gen, key, size)
                 IN  /\ put' = [key |-> key, size |-> size, hash |-> gh.hash,
                                metadata |-> PrepareMetadata(gh.hash, execCfg.NamespaceTag)]
                     /\ reader' = gh.reader
         ELSE /\ put' = NoPut
              /\ reader' = newFixedReader(<<0>>, 0)
    /\ shouldVerify' \in (IF op[traced] = "get" THEN BOOLEAN ELSE {FALSE})
    /\ IF op[traced] \notin Executors \/ (op[traced] = "delete" /\ execCfg.KeepData)
         THEN /\ opErr' = NilErr
              /\ ePC' = "returned"
              /\ UNCHANGED metrics
         ELSE IF 1 <= RetryCfg.MaxAttempts
                THEN /\ opErr' = NilErr
                     /\ ePC' = "attempt"
                     /\ UNCHANGED metrics
                ELSE ExecuteReturns(Errorf("max retries exceeded", NilErr), metrics)
    /\ UNCHANGED <<envVars, runVars, workerVars, storeVars, cleanVars, traced,
                   execCfg, gen, stored, metaVars, unitVars>>

\* a variant of the attempt that also sleeps after the last attempt failed
ExecAttemptNoBreak ==
    /\ ePC = "attempt"
    /\ LET o  == op[traced]
           r0 == IF o = "put" THEN SeekStart(reader, 0) ELSE reader
       IN  \E res \in StoreResults :
             LET err == IF res = NilErr THEN NilErr ELSE Errorf(FailedPrefix[o], res)
                 m1  == RecordOp(metrics, o, IF res = NilErr THEN "success" ELSE "error")
             IN  /\ fnResults' = Append(fnResults, err)
                 /\ IF o = "put"
                      THEN /\ sent' = ReadAll(r0).bytes
                           /\ \E n \in (IF res = NilErr THEN {r0.size} ELSE 0..r0.size) :
                                 reader' = Read(r0, n).reader
                           /\ stored' = IF res = NilErr
                                          THEN [key |-> put.key, body |-> ReadAll(r0).bytes,
                                                metadata |-> put.metadata]
                                          ELSE stored
                      ELSE UNCHANGED <<sent, reader, stored>>
                 /\ IF res = NilErr
                      THEN /\ UNCHANGED lastErr
                           /\ IF o = "get"
                                THEN /\ \E g \in GetResponses :
                                          /\ got' = g
                                          /\ metrics' = RecordBytesRead(m1, g.length)
                                     /\ ePC' = "verify"
                                     /\ UNCHANGED opErr
                                ELSE /\ UNCHANGED got
                                     /\ ExecuteReturns(NilErr,
                                            IF o = "put" THEN RecordBytesWritten(m1, put.size)
                                                         ELSE m1)
                      ELSE /\ lastErr' = err
                           /\ UNCHANGED got
                           /\ IF ~isRetryable(err)
                                THEN ExecuteReturns(err, m1)
                                ELSE /\ ePC' = "sleep"
                                     /\ metrics' = m1
                                     /\ UNCHANGED opErr
    /\ UNCHANGED <<envVars, runVars, workerVars, storeVars, cleanVars, traced,
                   execCfg, gen, opTimedOut, attempt, delay, sleeps, put,
                   shouldVerify, metrics0, metaVars, unitVars>>

\* one turn of WithRetry's loop up to its sleep: fn(ctx) is called, which is
\* one call of the op's Client method (executePut seeks the reader to the
\* start before it); the method records the op with its status, and the
\* bytes of a successful PUT or GET; nil ends WithRetry, an error that is not
\* retryable is returned as it is, and after the last attempt the loop is
\* left for `return fmt.Errorf("max retries exceeded: %w", lastErr)`
ExecAttempt ==
    /\ ePC = "attempt"
    /\ LET o  == op[traced]
           r0 == IF o = "put" THEN SeekStart(reader, 0) ELSE reader
       IN  \E res \in StoreResults :
             LET err == IF res = NilErr THEN NilErr ELSE Errorf(FailedPrefix[o], res)
                 m1  == RecordOp(metrics, o, IF res = NilErr THEN "success" ELSE "error")
             IN  /\ fnResults' = Append(fnResults, err)
                 /\ IF o = "put"
                      THEN /\ sent' = ReadAll(r0).bytes
                           /\ \E n \in (IF res = NilErr THEN {r0.size} ELSE 0..r0.size) :
                                 reader' = Read(r0, n).reader
                           /\ stored' = IF res = NilErr
                                          THEN [key |-> put.key, body |-> ReadAll(r0).bytes,
                                                metadata |-> put.metadata]
                                          ELSE stored
                      ELSE UNCHANGED <<sent, reader, stored>>
                 /\ IF res = NilErr
                      THEN /\ UNCHANGED lastErr
                           /\ IF o = "get"
                                THEN /\ \E g \in GetResponses :
                                          /\ got' = g
                                          /\ metrics' = RecordBytesRead(m1, g.length)
                                     /\ ePC' = "verify"
                                     /\ UNCHANGED opErr
                                ELSE /\ UNCHANGED got
                                     /\ ExecuteReturns(NilErr,
                                            IF o = "put" THEN RecordBytesWritten(m1, put.size)
                                                         ELSE m1)
                      ELSE /\ lastErr' = err
                           /\ UNCHANGED got
                           /\ IF ~isRetryable(err)
                                THEN ExecuteReturns(err, m1)
                                ELSE IF attempt = RetryCfg.MaxAttempts
                                       THEN ExecuteReturns(
                                                Errorf("max retries exceeded", err), m1)
                                       ELSE /\ ePC' = "sleep"
                                            /\ metrics' = m1
                                            /\ UNCHANGED opErr
    /\ UNCHANGED <<envVars, runVars, workerVars, storeVars, cleanVars, traced,
                   execCfg, gen, opTimedOut, attempt, delay, sleeps, put,
                   shouldVerify, metrics0, metaVars, unitVars>>

\* the backoff of WithRetry: `select { case <-ctx.Done(): return "retry
\* cancelled"; case <-time.After(backoff): }`, then the delay is multiplied,
\* capped at MaxDelay, and the loop goes round
ExecSleep ==
    /\ ePC = "sleep"
    /\ \/ /\ OpCtxErr # NilErr
          /\ ExecuteReturns(Errorf("retry cancelled", OpCtxErr), metrics)
          /\ UNCHANGED <<attempt, delay, sleeps>>
       \/ /\ sleeps' = Append(sleeps, delay)
          /\ delay' = NextDelay(RetryCfg, delay)
          /\ attempt' = attempt + 1
          /\ IF attempt + 1 <= RetryCfg.MaxAttempts
               THEN /\ ePC' = "attempt"
                    /\ UNCHANGED <<opErr, metrics>>
               ELSE ExecuteReturns(Errorf("max retries exceeded", lastErr), metrics)
    /\ UNCHANGED <<envVars, runVars, workerVars, storeVars, cleanVars, traced,
                   execCfg, gen, opTimedOut, lastErr, fnResults, put, reader,
                   sent, stored, shouldVerify, got, metrics0, metaVars, unitVars>>

\* a variant of executeGet that fetches the object again when it fails
\* verification
ExecVerifyRefetches ==
    /\ ePC = "verify"
    /\ IF shouldVerify
         THEN LET err == VerifyWithMetadata(got.body, got.metadata)
              IN  IF err # NilErr
                    THEN /\ metrics' = RecordVerifyFailure(metrics)
                         /\ ePC' = "attempt"
                         /\ UNCHANGED opErr
                    ELSE /\ opErr' = NilErr
                         /\ metrics' = RecordVerifySuccess(metrics)
                         /\ ePC' = "returned"
         ELSE /\ opErr' = NilErr
              /\ ePC' = "returned"
              /\ UNCHANGED metrics
    /\ UNCHANGED <<envVars, runVars, workerVars, storeVars, cleanVars, traced,
                   execCfg, gen, opTimedOut, attempt, delay, lastErr, fnResults,
                   sleeps, put, reader, sent, stored, shouldVerify, got,
                   metrics0, metaVars, unitVars>>

\* executeGet after WithRetry returned nil: a sampled GET is verified against
\* the sha256 of its metadata, a failure is counted and returned; the body of
\* a GET that is not sampled is discarded
ExecVerify ==
    /\ ePC = "verify"
    /\ IF shouldVerify
         THEN LET err == VerifyWithMetadata(got.body, got.metadata)
              IN  IF err # NilErr
                    THEN /\ opErr' = Errorf("verification failed", err)
                         /\ metrics' = RecordVerifyFailure(metrics)
                    ELSE /\ opErr' = NilErr
                         /\ metrics' = RecordVerifySuccess(metrics)
         ELSE /\ opErr' = NilErr
              /\ UNCHANGED metrics
    /\ ePC' = "returned"
    /\ UNCHANGED <<envVars, runVars, workerVars, storeVars, cleanVars, traced,
                   execCfg, gen, opTimedOut, attempt, delay, lastErr, fnResults,
                   sleeps, put, reader, sent, stored, shouldVerify, got,
                   metrics0, metaVars, unitVars>>

\* the deadline of context.WithTimeout(ctx, OpTimeout) passes during the call
ExecTimeout ==
    /\ ePC \in {"attempt", "sleep", "verify"}
    /\ ~opTimedOut
    /\ ~WorkerCtxDone
    /\ opTimedOut' = TRUE
    /\ UNCHANGED <<envVars, runVars, workerVars, storeVars, cleanVars, traced,
                   execCfg, gen, ePC, attempt, delay, lastErr, fnResults, sleeps,
                   opErr, put, reader, sent, stored, shouldVerify, got,
                   metrics, metrics0, metaVars, unitVars>>

(***************************************************************************)
(* PrepareMetadata, called on its own.                                     *)
(***************************************************************************)
CallPrepareMetadata ==
    /\ metadata = NoResult
    /\ metadata' = PrepareMetadata(hashArg, namespaceTag)
    /\ UNCHANGED <<envVars, runVars, workerVars, storeVars, cleanVars, execVars,
                   hashArg, namespaceTag, unitVars>>

(***************************************************************************)
(* A circuit breaker on its own: its calls, one after the other (the       *)
(* struct has no lock and the Runner does not use it), and the clock.      *)
(***************************************************************************)
\* time passes
Tick ==
    /\ now < MaxTime
    /\ now' = now + 1
    /\ UNCHANGED <<envVars, runVars, workerVars, storeVars, cleanVars, execVars,
                   metaVars, retryVars, cb, cbCall, readerVars, keyVars, schedVars>>

\* CircuitBreaker.Call(fn): the state check, then fn, which takes dur ticks
\* and returns err, then the bookkeeping with time.Now()
Call ==
    LET a == Admit(cb, now)
    IN  IF a.rejected
          THEN /\ cb' = a.breaker
               /\ cbCall' = [made |-> TRUE, before |-> cb, at |-> now,
                             invoked |-> FALSE, fnErr |-> NilErr,
                             result |-> CircuitOpen, after |-> a.breaker]
               /\ UNCHANGED <<envVars, runVars, workerVars, storeVars, cleanVars,
                              execVars, metaVars, retryVars, now, readerVars, keyVars, schedVars>>
          ELSE \E err \in {NilErr} \cup StoreErrors, dur \in 0..1 :
                 /\ now + dur <= MaxTime
                 /\ now' = now + dur
                 /\ cb' = Settle(a.breaker, now + dur, err)
                 /\ cbCall' = [made |-> TRUE, before |-> cb, at |-> now,
                               invoked |-> TRUE, fnErr |-> err,
                               result |-> err, after |-> cb']
                 /\ UNCHANGED <<envVars, runVars, workerVars, storeVars, cleanVars,
                                execVars, metaVars, retryVars, readerVars, keyVars, schedVars>>

\* CircuitBreaker.IsOpen(): the same check of the resetTimeout as Call's
IsOpen ==
    /\ cb' = IF cb.state = StateOpen /\ now - cb.lastFailure > cb.resetTimeout
               THEN [cb EXCEPT !.state = StateHalfOpen, !.failures = 0]
               ELSE cb
    /\ cb' # cb
    /\ UNCHANGED <<envVars, runVars, workerVars, storeVars, cleanVars, execVars,
                   metaVars, retryVars, now, cbCall, readerVars, keyVars, schedVars>>

(***************************************************************************)
(* Two payload readers of one Generate(key, size) each, on their own: the  *)
(* first is read in chunks and sought, the second is only read in chunks.  *)
(***************************************************************************)
\* stream.Read(p) with len(p) = n, before EOF
StreamRead ==
    /\ stream.position < stream.size
    /\ \E n \in 1..MaxChunk :
          LET rd == Read(stream, n)
          IN  /\ stream' = rd.reader
              /\ streamOut' = streamOut \o rd.bytes
              /\ streamReads' = Append(streamReads, n)
    /\ UNCHANGED <<envVars, runVars, workerVars, storeVars, cleanVars, execVars,
                   metaVars, retryVars, breakerVars, genKey, seekFrom, seekTarget, seekErr,
                   other, otherOut, otherReads, keyVars, schedVars>>

\* stream.Seek(offset, whence) for the offsets that ask for a position from
\* one before the start to one past the end: the position asked for is
\* remembered, and the bytes read are collected anew after a seek that
\* succeeded
StreamSeek ==
    /\ \E whence \in Whences, target \in -1..(stream.size + 1) :
          LET base   == IF whence = "SeekStart" THEN 0
                        ELSE IF whence = "SeekCurrent" THEN stream.position
                        ELSE stream.size
              offset == target - base
              sk     == Seek(stream, offset, whence)
          IN  /\ seekFrom' = stream.position
              /\ seekTarget' = target
              /\ seekErr' = sk.err
              /\ stream' = sk.reader
              /\ streamOut' = IF sk.err = NilErr THEN <<>> ELSE streamOut
              /\ streamReads' = IF sk.err = NilErr THEN <<>> ELSE streamReads
    /\ UNCHANGED <<envVars, runVars, workerVars, storeVars, cleanVars, execVars,
                   metaVars, retryVars, breakerVars, genKey, other, otherOut, otherReads, keyVars, schedVars>>

\* other.Read(p) with len(p) = n, before EOF
OtherRead ==
    /\ other.position < other.size
    /\ \E n \in 1..MaxChunk :
          LET rd == Read(other, n)
          IN  /\ other' = rd.reader
              /\ otherOut' = otherOut \o rd.bytes
              /\ otherReads' = Append(otherReads, n)
    /\ UNCHANGED <<envVars, runVars, workerVars, storeVars, cleanVars, execVars,
                   metaVars, retryVars, breakerVars, genKey, stream, streamOut, streamReads,
                   seekFrom, seekTarget, seekErr, keyVars, schedVars>>

(***************************************************************************)
(* A key generator on its own.                                             *)
(***************************************************************************)
\* key := kg.Generate(seq)
CallGenerate ==
    /\ keyOut = <<>>
    /\ keyOut' = KeyGenerate(kg, keySeq)
    /\ UNCHANGED <<envVars, runVars, workerVars, storeVars, cleanVars, execVars,
                   metaVars, retryVars, breakerVars, readerVars, kg, keySeq, schedVars>>

(***************************************************************************)
(* A scheduler on its own, with the ShouldVerify calls of a worker.        *)
(***************************************************************************)
\* int(float64(pct) * (100.0 / float64(total))): the percentage cut off
\* towards zero; the float product agrees with the exact quotient for the
\* percentages explored
NormalizedPct(pct, total) == (pct * 100) \div total

\* Config.Validate, its checks of the verify rate and of the mix: a rate
\* outside [0, 1], an empty mix, a percentage outside [0, 100] and a sum of
\* zero are errors; a mix that does not sum to 100 is scaled in place
Validate ==
    /\ schedPC = "load"
    /\ IF \/ verifyRate < 0
          \/ verifyRate > 100
          \/ DOMAIN mixArg = {}
          \/ \E o \in DOMAIN mixArg : mixArg[o] < 0 \/ mixArg[o] > 100
          \/ MixTotal(mixArg, DOMAIN mixArg) = 0
         THEN /\ schedPC' = "invalid"
              /\ UNCHANGED mixArg
         ELSE /\ schedPC' = "new"
              /\ LET total == MixTotal(mixArg, DOMAIN mixArg)
                 IN  mixArg' = IF total # 100
                                 THEN [o \in DOMAIN mixArg |->
                                          NormalizedPct(mixArg[o], total)]
                                 ELSE mixArg
    /\ UNCHANGED <<envVars, runVars, workerVars, storeVars, cleanVars, execVars,
                   metaVars, retryVars, breakerVars, readerVars, keyVars, mixIn, sched,
                   emitted, verifyRate, verifies, lastVerify>>

\* the seeds a scheduler is made with
SchedSeeds == {1, 2}

\* a variant of NewScheduler without the check of the sum
NewSchedulerNoSumCheck ==
    /\ schedPC = "new"
    /\ IF DOMAIN mixArg = {}
         THEN /\ schedPC' = "failed"
              /\ UNCHANGED sched
         ELSE /\ schedPC' = "ready"
              /\ \E order \in RangeOrders(mixArg), totalKeys \in {1, MaxKeys},
                    seed \in SchedSeeds :
                    sched' = [ops |-> order, weights |-> Cumulative(mixArg, order),
                              totalKeys |-> totalKeys, seed |-> seed, draws |-> 0]
    /\ UNCHANGED <<envVars, runVars, workerVars, storeVars, cleanVars, execVars,
                   metaVars, retryVars, breakerVars, readerVars, keyVars, mixIn, mixArg, emitted,
                   verifyRate, verifies, lastVerify>>

\* NewScheduler(mix, totalKeys, seed): an empty mix and a mix that sums to
\* zero are errors; else the ops of nonzero weight are appended in the
\* order the range over the map visits them, with their cumulative weights
NewScheduler ==
    /\ schedPC = "new"
    /\ IF DOMAIN mixArg = {} \/ MixTotal(mixArg, DOMAIN mixArg) = 0
         THEN /\ schedPC' = "failed"
              /\ UNCHANGED sched
         ELSE /\ schedPC' = "ready"
              /\ \E order \in RangeOrders(mixArg), totalKeys \in {1, MaxKeys},
                    seed \in SchedSeeds :
                    sched' = [ops |-> order, weights |-> Cumulative(mixArg, order),
                              totalKeys |-> totalKeys, seed |-> seed, draws |-> 0]
    /\ UNCHANGED <<envVars, runVars, workerVars, storeVars, cleanVars, execVars,
                   metaVars, retryVars, breakerVars, readerVars, keyVars, mixIn, mixArg, emitted,
                   verifyRate, verifies, lastVerify>>

\* Scheduler.Next()
SchedNext ==
    /\ schedPC = "ready"
    /\ Len(emitted) < MaxEmits
    /\ emitted' = Append(emitted, [kind |-> "op", value |-> NextOp(sched),
                                   drew |-> Len(sched.ops) > 1])
    /\ sched' = [sched EXCEPT !.draws = IF Len(sched.ops) > 1 THEN @ + 1 ELSE @]
    /\ UNCHANGED <<envVars, runVars, workerVars, storeVars, cleanVars, execVars,
                   metaVars, retryVars, breakerVars, readerVars, keyVars, mixIn, mixArg, schedPC,
                   verifyRate, verifies, lastVerify>>

\* Scheduler.NextKey()
NextKey ==
    /\ schedPC = "ready"
    /\ Len(emitted) < MaxEmits
    /\ emitted' = Append(emitted, [kind |-> "key",
                                   value |-> Intn(sched, sched.totalKeys),
                                   drew |-> TRUE])
    /\ sched' = [sched EXCEPT !.draws = @ + 1]
    /\ UNCHANGED <<envVars, runVars, workerVars, storeVars, cleanVars, execVars,
                   metaVars, retryVars, breakerVars, readerVars, keyVars, mixIn, mixArg, schedPC,
                   verifyRate, verifies, lastVerify>>

\* the values of a worker's rng.Float64(), in hundredths
VerifyDraws == {0, 29, 30, 99}

\* a variant of ShouldVerify that draws from the scheduler's rng
ShouldVerifyDrawsFromScheduler ==
    /\ schedPC = "ready"
    /\ verifies < MaxVerifies
    /\ verifies' = verifies + 1
    /\ LET draw == Intn(sched, 100)
       IN  lastVerify' = [called |-> TRUE, draw |-> draw,
                          result |-> ShouldVerifyResult(verifyRate, draw)]
    /\ sched' = [sched EXCEPT !.draws = @ + 1]
    /\ UNCHANGED <<envVars, runVars, workerVars, storeVars, cleanVars, execVars,
                   metaVars, retryVars, breakerVars, readerVars, keyVars, mixIn, mixArg, schedPC,
                   emitted, verifyRate>>

\* ShouldVerify(verifyRate, rng) with the rng of a worker, which is seeded
\* from the clock: its Float64() is any value in [0, 1)
ShouldVerify ==
    /\ schedPC = "ready"
    /\ verifies < MaxVerifies
    /\ verifies' = verifies + 1
    /\ \E draw \in VerifyDraws :
          lastVerify' = [called |-> TRUE, draw |-> draw,
                         result |-> ShouldVerifyResult(verifyRate, draw)]
    /\ UNCHANGED <<envVars, runVars, workerVars, storeVars, cleanVars, execVars,
                   metaVars, retryVars, breakerVars, readerVars, keyVars, mixIn, mixArg, schedPC,
                   sched, emitted, verifyRate>>

(***************************************************************************)
(* WithRetry on its own.                                                   *)
(***************************************************************************)
\* the head of the loop: `attempt <= cfg.MaxAttempts`, then fn(ctx): nil is
\* returned, an error that is not retryable is returned as it is, the last
\* attempt leaves the loop, any other goes to the backoff
WithRetryAttempt ==
    /\ wr.pc = "loop"
    /\ IF wr.attempt > wr.cfg.MaxAttempts
         THEN wr' = [wr EXCEPT !.pc = "returned",
                               !.err = Errorf("max retries exceeded", wr.lastErr)]
         ELSE \E err \in {NilErr} \cup StoreErrors :
                LET w1 == [wr EXCEPT !.calls = Append(@, err)]
                IN  IF err = NilErr
                      THEN wr' = [w1 EXCEPT !.pc = "returned", !.err = NilErr]
                      ELSE IF ~isRetryable(err)
                             THEN wr' = [w1 EXCEPT !.pc = "returned", !.err = err,
                                                   !.lastErr = err]
                             ELSE IF wr.attempt = wr.cfg.MaxAttempts
                                    THEN wr' = [w1 EXCEPT
                                                  !.pc = "returned", !.lastErr = err,
                                                  !.err = Errorf("max retries exceeded", err)]
                                    ELSE wr' = [w1 EXCEPT !.pc = "backoff",
                                                          !.lastErr = err]
    /\ UNCHANGED <<envVars, runVars, workerVars, storeVars, cleanVars, execVars,
                   metaVars, breakerVars, readerVars, keyVars, schedVars>>

\* the backoff: the delay, jittered if asked for, is slept unless the
\* context is done first; then the delay is multiplied and capped
WithRetrySleep ==
    /\ wr.pc = "backoff"
    /\ \/ wr' = [wr EXCEPT !.pc = "returned",
                           !.err = Errorf("retry cancelled", Canceled)]
       \/ \E backoff \in (IF wr.cfg.Jitter THEN Jittered(wr.delay) ELSE {wr.delay}) :
             wr' = [wr EXCEPT !.slept = Append(@, backoff),
                              !.delay = NextDelay(wr.cfg, wr.delay),
                              !.attempt = @ + 1,
                              !.pc = "loop"]
    /\ UNCHANGED <<envVars, runVars, workerVars, storeVars, cleanVars, execVars,
                   metaVars, breakerVars, readerVars, keyVars, schedVars>>

(***************************************************************************)
(* Specifications.                                                         *)
(***************************************************************************)
RunStep ==
    \/ RunCreateBucket
    \/ RunSetVersioning
    \/ RunMode
    \/ RunSpawn
    \/ RunSelect
    \/ RunWait

CleanupStep ==
    \/ CleanupList
    \/ CleanupHead
    \/ CleanupDelete
    \/ RunCleanupReturn

Next ==
    \/ CancelContext
    \/ Stop
    \/ TimerFires
    \/ RunStep
    \/ CleanupStep
    \/ \E w \in Workers : Worker(w)

\* the Runner with its environment
Spec == Init /\ [][Next]_vars

\* Workload-mode runs that skip the bucket set-up, with what the Go
\* scheduler and the clock guarantee: Run and every goroutine that can take
\* a step eventually takes it, a blocking call (a rate-limiter Wait, an
\* object-store call) eventually returns, and an armed timer fires.  Nothing
\* makes the caller cancel the context or call Stop().
WorkloadInit ==
    /\ cfg \in {c \in Configs : ~c.Cleanup /\ ~c.CreateBucket /\ c.Versioning = "keep"}
    /\ RunnerInit
    /\ runPC = "start"
    /\ objects = SampleStore
    /\ initial = objects
    /\ pageSize = 1
    /\ cleanPC = "idle"
    /\ CleanupIdle
    /\ Untraced

WorkloadNext ==
    \/ CancelContext
    \/ Stop
    \/ TimerFires
    \/ RunStep
    \/ \E w \in Workers : Worker(w)

Fairness ==
    /\ WF_vars(RunStep)
    /\ WF_vars(TimerFires)
    /\ \A w \in Workers : WF_vars(Worker(w))

FairSpec == WorkloadInit /\ [][WorkloadNext]_vars /\ Fairness

\* runCleanup alone, from its call of DeleteObjectsByMetadata, over every
\* bucket content and page size
CleanupInit ==
    /\ cfg \in {c \in Configs : c.Cleanup /\ ~c.CreateBucket /\ c.Versioning = "keep"
                                 /\ c.Concurrency = 1 /\ c.Operations = 0
                                 /\ c.Duration = 0}
    /\ RunnerInit
    /\ runPC = "cleanup"
    /\ objects \in Stores
    /\ initial = objects
    /\ pageSize \in 1..MaxPage
    /\ cleanPC = "list"
    /\ CleanupIdle
    /\ Untraced

CleanupSpec == CleanupInit /\ [][CleanupStep]_vars

\* One worker whose executeOp calls are followed step by step, over every
\* op kind, retry budget, tag and generator; the op cap ends the worker
\* after one operation.
FullMix == [o \in OpTypes |-> 14]

ExecInit ==
    /\ cfg = [CreateBucket |-> FALSE, Versioning |-> "keep", Cleanup |-> FALSE,
              Concurrency |-> 1, Operations |-> 1, Duration |-> 0, Mix |-> FullMix]
    /\ RunnerInit
    /\ runPC = "start"
    /\ objects = SampleStore
    /\ initial = objects
    /\ pageSize = 1
    /\ cleanPC = "idle"
    /\ CleanupIdle
    /\ traced = 1
    /\ execCfg \in ExecConfigs
    /\ gen \in Generators
    /\ ExecIdle
    /\ MetaIdle
    /\ UnitIdle

ExecStep ==
    \/ ExecStart
    \/ ExecAttempt
    \/ ExecSleep
    \/ ExecVerify
    \/ ExecTimeout

ExecNext ==
    \/ CancelContext
    \/ RunStep
    \/ \E w \in Workers : Worker(w)
    \/ ExecStep

ExecSpec == ExecInit /\ [][ExecNext]_vars

\* The same worker over two operations, with Stop() in its environment.
TraceInit ==
    /\ cfg = [CreateBucket |-> FALSE, Versioning |-> "keep", Cleanup |-> FALSE,
              Concurrency |-> 1, Operations |-> 2, Duration |-> 0, Mix |-> FullMix]
    /\ RunnerInit
    /\ runPC = "start"
    /\ objects = SampleStore
    /\ initial = objects
    /\ pageSize = 1
    /\ cleanPC = "idle"
    /\ CleanupIdle
    /\ traced = 1
    /\ execCfg = [DefaultExecConfig EXCEPT !.MaxRetries = 2]
    /\ gen = [seed |-> 1, fixed |-> <<>>]
    /\ ExecIdle
    /\ MetaIdle
    /\ UnitIdle

TraceNext ==
    \/ ExecNext
    \/ Stop

TraceSpec == TraceInit /\ [][TraceNext]_vars

\* PrepareMetadata over every hash and every tag of at most MaxTagLen symbols
TagSymbols == {MetadataKeySHA256, MetadataKeyCreatedBy, "x", "=", ",", " "}
Tags == UNION {[1..n -> TagSymbols] : n \in 0..MaxTagLen}
Hashes == {<<"0">>, <<"a", "b">>}

MetaInit ==
    /\ cfg = [CreateBucket |-> FALSE, Versioning |-> "keep", Cleanup |-> FALSE,
              Concurrency |-> 1, Operations |-> 0, Duration |-> 1, Mix |-> DefaultMix]
    /\ RunnerInit
    /\ runPC = "start"
    /\ objects = SampleStore
    /\ initial = objects
    /\ pageSize = 1
    /\ cleanPC = "idle"
    /\ CleanupIdle
    /\ traced = 0
    /\ execCfg = DefaultExecConfig
    /\ gen = DefaultGenerator
    /\ ExecIdle
    /\ hashArg \in Hashes
    /\ namespaceTag \in Tags
    /\ metadata = NoResult
    /\ UnitIdle

MetaNext == CallPrepareMetadata

MetaSpec == MetaInit /\ [][MetaNext]_vars

\* everything of the Runner at rest, for the specifications that follow one
\* part on its own
RunnerParked ==
    /\ cfg = [CreateBucket |-> FALSE, Versioning |-> "keep", Cleanup |-> FALSE,
              Concurrency |-> 1, Operations |-> 0, Duration |-> 1, Mix |-> DefaultMix]
    /\ RunnerInit
    /\ runPC = "start"
    /\ objects = SampleStore
    /\ initial = objects
    /\ pageSize = 1
    /\ cleanPC = "idle"
    /\ CleanupIdle

\* the same with no executor and no PrepareMetadata call followed
Parked ==
    /\ RunnerParked
    /\ traced = 0
    /\ execCfg = DefaultExecConfig
    /\ gen = DefaultGenerator
    /\ ExecIdle
    /\ MetaIdle

\* A circuit breaker of every maxFailures and resetTimeout within the bounds
BreakerInit ==
    /\ Parked
    /\ \E m \in 0..MaxFailures, r \in 0..MaxTimeout : cb = NewCircuitBreaker(m, r)
    /\ now = 0
    /\ cbCall = NoCall
    /\ ReaderIdle
    /\ KeyIdle
    /\ SchedIdle
    /\ RetryIdle

BreakerNext ==
    \/ Tick
    \/ Call
    \/ IsOpen

BreakerSpec == BreakerInit /\ [][BreakerNext]_vars

\* the generators of the accepted patterns random:1, random:0 and fixed:0102
\* (a seed of 0 makes Generate fall through to the zero pattern)
ReaderGenerators == Generators \cup {[seed |-> 0, fixed |-> <<>>]}

\* Two readers of the same generator, key and size
ReaderInit ==
    /\ RunnerParked
    /\ traced = 0
    /\ execCfg = DefaultExecConfig
    /\ gen \in ReaderGenerators
    /\ ExecIdle
    /\ MetaIdle
    /\ BreakerIdle
    /\ genKey \in Keys
    /\ \E size \in 0..(MaxSize + 1) :
          /\ stream = Generate(gen, genKey, size)
          /\ other = Generate(gen, genKey, size)
    /\ streamOut = <<>>
    /\ streamReads = <<>>
    /\ seekFrom = -1
    /\ seekTarget = 0
    /\ seekErr = NilErr
    /\ otherOut = <<>>
    /\ otherReads = <<>>
    /\ KeyIdle
    /\ SchedIdle
    /\ RetryIdle

ReaderNext ==
    \/ StreamRead
    \/ StreamSeek
    \/ OtherRead

ReaderSpec == ReaderInit /\ [][ReaderNext]_vars

\* the symbols of a key template, and the templates of at most
\* MaxTemplateLen symbols
TemplateSymbols == {"{seq", "}", ":", "0", "3", "x"}
Templates == UNION {[1..n -> TemplateSymbols] : n \in 0..MaxTemplateLen}
Seqs == {0, 42, 1234}

\* Every template with the prefix bench/ and a sequence number
KeyInit ==
    /\ Parked
    /\ BreakerIdle
    /\ ReaderIdle
    /\ \E t \in Templates : kg = NewKeyGenerator(<<"bench/">>, t, 1235)
    /\ keySeq \in Seqs
    /\ keyOut = <<>>
    /\ SchedIdle
    /\ RetryIdle

KeyNext == CallGenerate

KeySpec == KeyInit /\ [][KeyNext]_vars

\* the mixes over three op kinds with weights up to MaxWeight, the verify
\* rates and the values of a worker's rng.Float64()
MixOps == {"put", "get", "delete"}
Mixes == UNION {[S -> 0..MaxWeight] : S \in SUBSET MixOps}
VerifyRates == {-50, 0, 30, 100, 150}

\* A scheduler about to be made from every mix, and a verify rate
SchedInit ==
    /\ Parked
    /\ BreakerIdle
    /\ ReaderIdle
    /\ KeyIdle
    /\ mixArg \in Mixes
    /\ mixIn = mixArg
    /\ schedPC = "new"
    /\ sched = NoScheduler
    /\ emitted = <<>>
    /\ verifyRate \in VerifyRates
    /\ verifies = 0
    /\ lastVerify = NoVerify
    /\ RetryIdle

SchedStep ==
    \/ NewScheduler
    \/ SchedNext
    \/ NextKey
    \/ ShouldVerify

SchedSpec == SchedInit /\ [][SchedStep]_vars

\* the percentages given for an op on the command line, and the mixes
ConfigPcts == {-1, 0, 1, 100, 101}
ConfigMixes == UNION {[S -> ConfigPcts] : S \in SUBSET MixOps}

\* A configuration about to be validated, then its scheduler
ConfigInit ==
    /\ Parked
    /\ BreakerIdle
    /\ ReaderIdle
    /\ KeyIdle
    /\ mixIn \in ConfigMixes
    /\ mixArg = mixIn
    /\ schedPC = "load"
    /\ sched = NoScheduler
    /\ emitted = <<>>
    /\ verifyRate \in VerifyRates
    /\ verifies = 0
    /\ lastVerify = NoVerify
    /\ RetryIdle

ConfigStep ==
    \/ Validate
    \/ SchedStep

ConfigSpec == ConfigInit /\ [][ConfigStep]_vars

\* the RetryConfigs explored: whole multipliers, delays of a few ticks
RetryConfigs ==
    [MaxAttempts  : 0..(MaxRetries + 1),
     InitialDelay : 1..MaxDelayTicks,
     MaxDelay     : 1..MaxDelayTicks,
     Multiplier   : {1, 2},
     Jitter       : BOOLEAN]

\* WithRetry entered with every RetryConfig
RetryInit ==
    /\ Parked
    /\ BreakerIdle
    /\ ReaderIdle
    /\ KeyIdle
    /\ SchedIdle
    /\ \E c \in RetryConfigs : wr = EnterWithRetry(c)

RetryNext ==
    \/ WithRetryAttempt
    \/ WithRetrySleep

RetrySpec == RetryInit /\ [][RetryNext]_vars

(***************************************************************************)
(* Properties.                                                             *)
(***************************************************************************)
\* goroutines of worker that have been started and have not returned
RunningWorkers == {w \in Workers : pc[w] \notin {"unborn", "done"}}

\* the workers Run has spawned
SpawnedWorkers == {w \in Workers : w <= spawned}

\* something has told the run to end: cancellation, Stop(), or the duration
ShutdownBegun == WorkerCtxDone \/ stopChan = "closed" \/ timer = "fired"

\* the tool-made objects under the prefix in the bucket cleanup started on
SentinelKeys ==
    {k \in DOMAIN initial :
        /\ initial[k].underPrefix
        /\ MetadataKeyCreatedBy \in DOMAIN initial[k].meta
        /\ initial[k].meta[MetadataKeyCreatedBy] = MetadataValueCreatedBy}

\* C1: Stop() may be called any number of times and never faults.
C1_StopNeverFaults == ~stopPanicked

\* C2: once an op-count cap N > 0 is reached and the dispatched operations
\* have completed, Run eventually returns, with no help from the duration
\* timer, a cancellation or Stop().
C2_CapEndsRun ==
    (/\ cfg.Operations > 0
     /\ opsCounter >= cfg.Operations
     /\ \A w \in Workers : op[w] = "none")
        ~> (runPC = "returned")

\* C3: with an op-count cap N > 0 the global op counter never exceeds N.
C3_CounterWithinCap ==
    cfg.Operations > 0 => opsCounter <= cfg.Operations

\* C4: once the context is cancelled or Stop() is called while the workload
\* runs, every worker eventually exits and Run eventually returns nil.
C4_CancelOrStopEndsRun ==
    (/\ runPC \in {"spawn", "select"}
     /\ (ctxCancelled \/ stopChan = "closed"))
        ~> (/\ runPC = "returned"
            /\ runErr = "nil"
            /\ \A w \in SpawnedWorkers : pc[w] = "done")

\* a run that Stop() alone ended, after at least one operation
C4_Witness ==
    /\ runPC = "returned"
    /\ runErr = "nil"
    /\ stopChan = "closed"
    /\ ~ctxCancelled
    /\ timer # "fired"
    /\ opsCounter > 0

\* C5: in workload mode, when Run has returned every worker it spawned has
\* exited and no operation is in flight.
C5_ReturnAfterWorkers ==
    (runPC = "returned" /\ ~cfg.Cleanup) =>
        /\ RunningWorkers = {}
        /\ \A w \in SpawnedWorkers : pc[w] = "done"
        /\ \A w \in Workers : op[w] = "none"

\* Run has returned from a workload of two workers that dispatched operations
C5_Witness ==
    /\ runPC = "returned"
    /\ ~cfg.Cleanup
    /\ spawned = 2
    /\ opsCounter >= 2

\* C6 (R1): an operation is dispatched only on a Wait of the same iteration
\* that returned nil, one Wait admits one operation, and a worker whose Wait
\* returned an error dispatches nothing more.
C6_WaitBeforeEveryOp ==
    \A w \in Workers :
        /\ credit[w] \in {0, 1}
        /\ credit[w] = 1 <=> pc[w] = "dispatch"
        /\ op[w] # "none" <=> pc[w] = "exec"
        /\ waitErr[w] => pc[w] = "done"

\* a single worker dispatched an operation and then left on a Wait error
C6_Witness ==
    /\ cfg.Concurrency = 1
    /\ opsCounter >= 1
    /\ waitErr[1]

\* C7 (R2): from the end of worker start-up to the beginning of shutdown the
\* number of running workers equals the configured concurrency.
C7_WorkersEqualConcurrency ==
    (runPC = "select" /\ ~ShutdownBegun) =>
        Cardinality(RunningWorkers) = cfg.Concurrency

\* C8 (R3): in cleanup mode no worker is spawned and no scheduled operation
\* is dispatched; in workload mode the cleanup protocol is never entered.
C8_ModesExclusive ==
    /\ cfg.Cleanup =>
          /\ spawned = 0
          /\ wg = 0
          /\ opsCounter = 0
          /\ \A w \in Workers : pc[w] = "unborn" /\ op[w] = "none"
    /\ ~cfg.Cleanup =>
          /\ cleanPC = "idle"
          /\ runPC # "cleanup"
          /\ listed = {}
          /\ deleteIssued = {}
          /\ objects = initial

\* a cleanup run that deleted an object has returned
C8_Witness ==
    /\ cfg.Cleanup
    /\ runPC = "returned"
    /\ deleteIssued # {}

\* C9 (I2): cleanup issues a delete only for a key listed under the prefix
\* whose HEAD metadata had created-by = s3-workload; every other object is
\* still there, whatever requests failed.
C9_CleanupWithinScope ==
    /\ deleteIssued \subseteq (listed \cap headMatched \cap SentinelKeys)
    /\ \A k \in (DOMAIN initial) \ SentinelKeys : objects[k] = initial[k]

\* a cleanup with failed requests ended, having issued a delete in a bucket
\* that also holds a foreign object under the prefix and one outside it
C9_Witness ==
    /\ cleanPC = "done"
    /\ failures > 0
    /\ deleteIssued # {}
    /\ \E k \in (DOMAIN initial) \ SentinelKeys : initial[k].underPrefix
    /\ \E k \in DOMAIN initial : ~initial[k].underPrefix

\* C10 (T9): when no request fails, cleanup deletes exactly the K tool-made
\* objects under the prefix, over any number of pages, and returns K.
C10_CleanupComplete ==
    (cleanPC = "done" /\ failures = 0) =>
        /\ deleted = Cardinality(SentinelKeys)
        /\ deleteIssued = SentinelKeys
        /\ \A k \in SentinelKeys : ~objects[k].present
        /\ \A k \in (DOMAIN initial) \ SentinelKeys : objects[k] = initial[k]

\* a cleanup without failures ended after more than one page and two deletes
C10_Witness ==
    /\ cleanPC = "done"
    /\ failures = 0
    /\ deleted >= 2
    /\ Cardinality(listed) > pageSize

\* C11: whatever Run returns is nil or the bucket set-up error: no request
\* made after the set-up, in workload mode or in cleanup mode, makes Run
\* return an error.
C11_OnlySetupErrors ==
    runPC = "returned" => runErr \in {"nil", "create bucket"}

\* C12: a failed bucket set-up ends Run with that error and nothing follows
\* it (no SetVersioning call, no cleanup request, no worker); a failed
\* SetVersioning call never ends Run and never becomes its error.
C12_StartSequenceAbort ==
    /\ runErr = "create bucket" =>
          /\ cfg.CreateBucket
          /\ runPC = "returned"
          /\ versioning = "none"
          /\ cleanPC = "idle" /\ listed = {} /\ deleteIssued = {}
          /\ objects = initial
          /\ spawned = 0 /\ wg = 0 /\ opsCounter = 0
          /\ \A w \in Workers : pc[w] = "unborn"
    /\ versioning = "failed" =>
          /\ runPC \in {"mode", "cleanup", "spawn", "select", "wait", "returned"}
          /\ runErr \in {"none", "nil", "cleanup failed"}
    /\ runPC \notin {"start", "versioning"} /\ runErr # "create bucket" =>
          (versioning = "none" <=> cfg.Versioning = "keep")

\* Run returned the bucket set-up error under a configuration that asks for
\* versioning and cleanup
C12_Witness ==
    /\ runPC = "returned"
    /\ runErr = "create bucket"
    /\ cfg.Versioning = "on"
    /\ cfg.Cleanup

\* C13: a worker that has exited did so because the context was done, the
\* stop channel closed, the op-count cap reached or its Wait failed; however
\* its operations ended, none of them ended the worker.
C13_FailuresNeverEndWorker ==
    \A w \in Workers :
        pc[w] = "done" =>
            \/ WorkerCtxDone
            \/ stopChan = "closed"
            \/ cfg.Operations > 0 /\ opsCounter >= cfg.Operations
            \/ waitErr[w]

\* the worker's first operation failed verification and the worker has
\* dispatched its second one, with nothing telling it to stop
C13_Witness ==
    /\ opErr = <<"verification failed", "hash mismatch">>
    /\ ePC = "idle"
    /\ pc[traced] = "exec"
    /\ opsCounter = 2
    /\ ~WorkerCtxDone
    /\ stopChan = "open"

\* the error message holds one of the substrings that make an error retryable
HasRetryableSubstring(err) ==
    \E i \in 1..Len(err) : err[i] \in RetryableSubstrings

\* the number of calls of fn that returned nil
Successes == Cardinality({i \in 1..Len(fnResults) : fnResults[i] = NilErr})

\* the number of calls of fn that returned an error
Failures == Cardinality({i \in 1..Len(fnResults) : fnResults[i] # NilErr})

\* C14: when every call of fn fails with a retryable error, MaxAttempts is
\* n >= 1 and the context stays live, WithRetry calls fn n times, sleeps n-1
\* times and returns "max retries exceeded" wrapping the last error; it
\* sleeps only between two attempts.
C14_RetryBounds ==
    /\ ePC = "sleep" =>
          /\ attempt < RetryCfg.MaxAttempts
          /\ Len(fnResults) = attempt
          /\ Len(sleeps) = attempt - 1
    /\ (/\ ePC = "returned"
        /\ RetryCfg.MaxAttempts >= 1
        /\ fnResults # <<>>
        /\ \A i \in 1..Len(fnResults) : HasRetryableSubstring(fnResults[i])
        /\ OpCtxErr = NilErr) =>
          /\ Len(fnResults) = RetryCfg.MaxAttempts
          /\ Len(sleeps) = RetryCfg.MaxAttempts - 1
          /\ opErr = <<"max retries exceeded">> \o fnResults[Len(fnResults)]

\* two attempts failed with SlowDown under MaxAttempts = 2 and the call ended
C14_Witness ==
    /\ ePC = "returned"
    /\ RetryCfg.MaxAttempts = 2
    /\ fnResults = <<<<"list failed", "SlowDown">>, <<"list failed", "SlowDown">>>>
    /\ sleeps = <<100>>
    /\ OpCtxErr = NilErr

\* C15: a call of fn that fails with an error holding no retryable substring
\* is the last one: no attempt and no sleep follows it and WithRetry returns
\* that very error.
C15_NonRetryableShortCircuit ==
    \A i \in 1..Len(fnResults) :
        (fnResults[i] # NilErr /\ ~HasRetryableSubstring(fnResults[i])) =>
            /\ i = Len(fnResults)
            /\ Len(sleeps) = i - 1
            /\ ePC \in {"returned", "idle"}
            /\ opErr = fnResults[i]

\* AccessDenied on the second attempt, after a retried SlowDown
C15_Witness ==
    /\ ePC = "returned"
    /\ fnResults = <<<<"put failed", "SlowDown">>, <<"put failed", "AccessDenied">>>>
    /\ opErr = <<"put failed", "AccessDenied">>
    /\ sleeps = <<100>>

\* executeGet returned a verification failure
VerificationFailed == opErr # NilErr /\ opErr[1] = "verification failed"

\* C16: a GET whose verification fails is not fetched again, adds exactly
\* one to the verify-failure counter and returns the error; a GET that is
\* not sampled leaves the verify counters alone.
C16_VerifyFailureCountedOnce ==
    /\ Successes <= 1
    /\ metrics.verifyFailures - metrics0.verifyFailures \in {0, 1}
    /\ VerificationFailed =>
          /\ ePC \in {"returned", "idle"}
          /\ shouldVerify
          /\ Successes = 1
          /\ fnResults[Len(fnResults)] = NilErr
          /\ VerifyWithMetadata(got.body, got.metadata) # NilErr
          /\ metrics.verifyFailures = metrics0.verifyFailures + 1
          /\ metrics.verifyTotal = metrics0.verifyTotal + 1
    /\ (ePC \in {"returned", "idle"} /\ ~VerificationFailed) =>
          metrics.verifyFailures = metrics0.verifyFailures
    /\ ~shouldVerify =>
          /\ metrics.verifyFailures = metrics0.verifyFailures
          /\ metrics.verifyTotal = metrics0.verifyTotal

\* a sampled GET that succeeded on its second attempt came without sha256
\* metadata and the call returned the verification error
C16_Witness ==
    /\ ePC = "returned"
    /\ Len(fnResults) = 2
    /\ opErr = <<"verification failed", "no hash found in metadata">>
    /\ metrics.verifyFailures = 1

\* C17: the sha256 metadata of a PUT is the digest of the full payload of
\* its key and size, every attempt sends that payload from its first byte
\* to its last, and what a successful PUT stores hashes to its sha256
\* metadata.
C17_PutBodyMatchesHash ==
    /\ (ePC \in {"attempt", "sleep", "returned"} /\ op[traced] = "put") =>
          LET full == ReadAll(Generate(gen, put.key, put.size)).bytes
          IN  /\ Len(full) = put.size
              /\ put.metadata[<<MetadataKeySHA256>>] = EncodeToString(Sha256(full))
              /\ fnResults # <<>> => sent = full
    /\ stored # NoObject =>
          EncodeToString(Sha256(stored.body)) = stored.metadata[<<MetadataKeySHA256>>]

\* C18: the metadata built for a PUT has sha256 equal to the hash given and
\* created-by equal to the sentinel, whatever the tag, and holds the pair of
\* a tag that is one well-formed pair.
C18_MetadataHasHashAndSentinel ==
    metadata # NoResult =>
        /\ metadata[<<MetadataKeySHA256>>] = hashArg
        /\ metadata[<<MetadataKeyCreatedBy>>] = <<MetadataValueCreatedBy>>
        /\ (/\ Len(namespaceTag) = 3
            /\ namespaceTag[2] = "="
            /\ namespaceTag[1] \notin {"=", ",", " ", MetadataKeySHA256, MetadataKeyCreatedBy}
            /\ namespaceTag[3] \notin {"=", ",", " "}) =>
              /\ <<namespaceTag[1]>> \in DOMAIN metadata
              /\ metadata[<<namespaceTag[1]>>] = <<namespaceTag[3]>>

\* C19: a call whose every request failed on the cancelled context adds
\* nothing to s3_ops_total{status="error"} and nothing to s3_retries_total.
C19_CancelNotCounted ==
    (/\ ePC = "returned"
     /\ fnResults # <<>>
     /\ \A i \in 1..Len(fnResults) :
            fnResults[i] = <<FailedPrefix[op[traced]]>> \o Canceled) =>
        /\ metrics.ops[<<op[traced], "error">>] = metrics0.ops[<<op[traced], "error">>]
        /\ metrics.retries[op[traced]] = metrics0.retries[op[traced]]

C21_RetryCountedOnce ==
    ePC = "returned" =>
        /\ (opErr # NilErr /\ opErr[1] = "max retries exceeded") =>
              \A o \in OpTypes :
                  metrics.retries[o] - metrics0.retries[o]
                      = IF o = op[traced] THEN 1 ELSE 0
        /\ opErr = NilErr => metrics.retries = metrics0.retries

\* a GET gave up after two attempts that failed with SlowDown
C21_Witness ==
    /\ ePC = "returned"
    /\ op[traced] = "get"
    /\ opErr = <<"max retries exceeded", "get failed", "SlowDown">>
    /\ Len(fnResults) = 2
    /\ metrics.retries["get"] = 1

\* C22: under KeepData no request of a scheduled DELETE reaches the object
\* store: the operation returns nil without a call, and the delete counters
\* of the Client never move.
C22_KeepDataNeverDeletes ==
    execCfg.KeepData =>
        /\ metrics.ops[<<"delete", "success">>] = 0
        /\ metrics.ops[<<"delete", "error">>] = 0
        /\ (op[traced] = "delete" /\ ePC # "idle") =>
              /\ ePC = "returned"
              /\ fnResults = <<>>
              /\ opErr = NilErr

\* a DELETE was dispatched under KeepData and has returned
C22_Witness ==
    /\ execCfg.KeepData
    /\ pc[traced] = "exec"
    /\ op[traced] = "delete"
    /\ ePC = "returned"

\* C23: a dispatched multipart_put made requests to the object store: at
\* least the CreateUpload and the CompleteUpload or AbortUpload that ends
\* the upload.
C23_MultipartUploads ==
    (op[traced] = "multipart_put" /\ ePC = "returned") => Len(fnResults) >= 2

\* C24: a Call on an open breaker whose resetTimeout has not passed since
\* the last failure returns the circuit-open error without calling fn and
\* leaves the breaker as it was; a Call on an open breaker whose
\* resetTimeout has passed calls fn; no other Call is rejected.
C24_OpenRejectsUntilTimeout ==
    cbCall.made =>
        LET b       == cbCall.before
            elapsed == cbCall.at - b.lastFailure
        IN  /\ (b.state = StateOpen /\ elapsed < b.resetTimeout) =>
                  /\ ~cbCall.invoked
                  /\ cbCall.result = CircuitOpen
                  /\ cbCall.after = b
            /\ (b.state = StateOpen /\ elapsed > b.resetTimeout) =>
                  /\ cbCall.invoked
                  /\ cbCall.result = cbCall.fnErr
            /\ ~cbCall.invoked => b.state = StateOpen

\* a Call was rejected within the resetTimeout of the last failure
C24_Witness ==
    /\ cbCall.made
    /\ cbCall.before.state = StateOpen
    /\ cbCall.at - cbCall.before.lastFailure < cbCall.before.resetTimeout
    /\ ~cbCall.invoked
    /\ cb = cbCall.before

\* C25: with maxFailures >= 1 a breaker that is not open has counted fewer
\* than maxFailures failures, and a Call whose fn succeeded leaves the
\* breaker closed with a count of zero.
C25_OpenAtMaxFailures ==
    cb.maxFailures >= 1 =>
        /\ cb.state # StateOpen => cb.failures < cb.maxFailures
        /\ (cbCall.made /\ cbCall.invoked /\ cbCall.fnErr = NilErr) =>
              /\ cbCall.after.state = StateClosed
              /\ cbCall.after.failures = 0
              /\ cbCall.result = NilErr

\* a breaker opened by two failures was tried again after its resetTimeout
\* and the call succeeded
C25_Witness ==
    /\ cb.maxFailures = 2
    /\ cbCall.made
    /\ cbCall.before.state = StateOpen
    /\ cbCall.before.failures = 2
    /\ cbCall.invoked
    /\ cbCall.fnErr = NilErr
    /\ cb.state = StateClosed
    /\ cb.failures = 0

\* the payload of the readers' generator, key and size, read in one piece
\* from a reader of its own
Payload == ReadAll(Generate(gen, genKey, stream.size)).bytes

\* C26: two readers made by two Generate calls of one pattern, key and size
\* deliver the same bytes whatever the buffer lengths they are read with,
\* and each delivers size bytes up to its EOF.
C26_PayloadDeterminism ==
    /\ Len(otherOut) = other.position
    /\ other.position <= other.size
    /\ seekFrom = -1 =>
          /\ Len(streamOut) = stream.position
          /\ stream.position <= stream.size
          /\ \A i \in 1..Min(Len(streamOut), Len(otherOut)) :
                 streamOut[i] = otherOut[i]
          /\ (stream.position = stream.size /\ other.position = other.size) =>
                 /\ streamOut = otherOut
                 /\ Len(streamOut) = stream.size
                 /\ Sha256(streamOut) = Sha256(otherOut)

\* a random payload of three bytes, not all equal, was read to EOF as 1 + 2
\* bytes from one reader and as 2 + 1 bytes from the other
C26_Witness ==
    /\ stream.random
    /\ seekFrom = -1
    /\ streamReads = <<1, 2>>
    /\ otherReads = <<2, 1>>
    /\ Len(streamOut) = 3
    /\ streamOut = otherOut
    /\ streamOut[1] # streamOut[2]

\* C27: after a Seek from position q that asks for a position p with
\* 0 <= p <= q, with any whence, the Seek has succeeded and the bytes read
\* since are the bytes p, p+1, ... of the payload.
C27_BackwardSeekRestores ==
    (seekFrom >= 0 /\ 0 <= seekTarget /\ seekTarget <= seekFrom) =>
        /\ seekErr = NilErr
        /\ stream.position = seekTarget + Len(streamOut)
        /\ \A i \in 1..Len(streamOut) : streamOut[i] = Payload[seekTarget + i]

RECURSIVE Decimal(_)
\* the decimal digits of n >= 0, high digit first
Decimal(n) ==
    IF n < 10 THEN <<Digits[n + 1]>>
    ELSE Append(Decimal(n \div 10), Digits[(n % 10) + 1])

RECURSIVE WidthOf(_)
\* the number a sequence of the digits 0 and 3 writes
WidthOf(ds) ==
    IF ds = <<>> THEN 0
    ELSE 10 * WidthOf(SubSeq(ds, 1, Len(ds) - 1))
            + (IF ds[Len(ds)] = "3" THEN 3 ELSE 0)

\* the decimal of n with zeros in front up to width digits
ZeroPadded(width, n) ==
    LET dec == Decimal(n)
    IN  [i \in 1..(IF width > Len(dec) THEN width - Len(dec) ELSE 0) |-> "0"] \o dec

\* C28: the key is the prefix followed by the template, in which the first
\* marker is replaced: {seq} by the decimal of seq, {seq:N} with N a
\* positive integer by the decimal padded with zeros to N digits; a
\* template without "{seq" follows the prefix unchanged; bench/ with
\* {seq:03} and 42 gives bench/042.
C28_KeyTemplateRendering ==
    keyOut # <<>> =>
        LET t      == kg.template
            starts == {i \in 1..Len(t) : t[i] = "{seq"}
        IN  /\ starts = {} => keyOut = kg.prefix \o t
            /\ starts # {} =>
                  LET k    == CHOOSE i \in starts : \A j \in starts : i <= j
                      pre  == kg.prefix \o SubSeq(t, 1, k - 1)
                      ends == {e \in (k + 3)..Len(t) :
                                  /\ t[k + 1] = ":"
                                  /\ t[e] = "}"
                                  /\ \A j \in (k + 2)..(e - 1) : t[j] \in {"0", "3"}}
                  IN  /\ (k < Len(t) /\ t[k + 1] = "}") =>
                            keyOut = pre \o Decimal(keySeq) \o SubSeq(t, k + 2, Len(t))
                      /\ \A e \in ends :
                            WidthOf(SubSeq(t, k + 2, e - 1)) > 0 =>
                                keyOut = pre
                                    \o ZeroPadded(WidthOf(SubSeq(t, k + 2, e - 1)), keySeq)
                                    \o SubSeq(t, e + 1, Len(t))
            /\ (t = <<"{seq", ":", "0", "3", "}">> /\ keySeq = 42) =>
                  keyOut = kg.prefix \o <<"0", "4", "2">>

\* bench/ with the template x{seq:3}x and 42 was rendered
C28_Witness ==
    /\ kg.prefix = <<"bench/">>
    /\ kg.template = <<"x", "{seq", ":", "3", "}">>
    /\ keySeq = 42
    /\ keyOut = <<"bench/", "x", "0", "4", "2">>

\* C29: NewScheduler fails exactly for an empty mix and for a mix of
\* non-negative weights that are all zero; a mix with a positive weight is
\* accepted, and the scheduler made holds exactly its ops of positive
\* weight, with cumulative weights that end at their sum.
C29_NewSchedulerValidation ==
    schedPC # "new" =>
        LET positive == {o \in DOMAIN mixArg : mixArg[o] > 0}
        IN  /\ schedPC = "failed" <=> positive = {}
            /\ schedPC = "failed" => sched = NoScheduler
            /\ schedPC = "ready" =>
                  /\ {sched.ops[i] : i \in 1..Len(sched.ops)} = positive
                  /\ Len(sched.ops) = Cardinality(positive)
                  /\ Len(sched.weights) = Len(sched.ops)
                  /\ \A i \in 1..Len(sched.ops) :
                        sched.weights[i] =
                            (IF i = 1 THEN 0 ELSE sched.weights[i - 1])
                                + mixArg[sched.ops[i]]

\* a mix that is not empty and has only zero weights was rejected
C29_Witness ==
    /\ schedPC = "failed"
    /\ DOMAIN mixArg # {}

\* number of draws the calls of Next and NextKey before the i-th made
DrawsBefore(i) == Cardinality({j \in 1..(i - 1) : emitted[j].drew})

\* C30: ShouldVerify is false for a rate <= 0, true for a rate >= 1, and
\* else true exactly when the worker's draw is below the rate; the
\* scheduler's rng has given exactly the draws of Next and NextKey, so each
\* op and key index emitted is what the scheduler's seed, ops and the calls
\* before it decide, whatever the verify rate and the ShouldVerify calls.
C30_ShouldVerifyLeavesScheduler ==
    /\ lastVerify.called =>
          /\ verifyRate <= 0 => ~lastVerify.result
          /\ verifyRate >= 100 => lastVerify.result
          /\ (verifyRate > 0 /\ verifyRate < 100) =>
                (lastVerify.result <=> lastVerify.draw < verifyRate)
    /\ schedPC = "ready" =>
          /\ sched.draws = DrawsBefore(Len(emitted) + 1)
          /\ \A i \in 1..Len(emitted) :
                LET at == [sched EXCEPT !.draws = DrawsBefore(i)]
                IN  emitted[i].value =
                        IF emitted[i].kind = "op" THEN NextOp(at)
                        ELSE Intn(at, sched.totalKeys)

\* ShouldVerify returned true on a draw below a rate strictly between 0 and
\* 1, between calls of Next and NextKey that drew from the scheduler's rng
C30_Witness ==
    /\ lastVerify.called
    /\ verifyRate > 0
    /\ verifyRate < 100
    /\ lastVerify.result
    /\ verifies = 1
    /\ Len(emitted) >= 2
    /\ sched.draws >= 2

\* C31: after Validate accepted a mix, its percentages sum to exactly 100
\* and every entry that was positive before is still positive.
C31_MixNormalized ==
    schedPC \in {"new", "ready", "failed"} =>
        /\ MixTotal(mixArg, DOMAIN mixArg) = 100
        /\ \A o \in DOMAIN mixIn : mixIn[o] > 0 => mixArg[o] > 0

\* C32: the first backoff of a dispatched operation is derived from the
\* configured retry-backoff, and the attempts are bounded by the configured
\* max-retries.
C32_ConfiguredBackoffUsed ==
    /\ Len(sleeps) >= 1 => sleeps[1] = execCfg.RetryBackoff
    /\ Len(fnResults) <= execCfg.MaxRetries

\* C33: the s3_active_workers gauge equals the number of workers that have
\* started (set the gauge on entry) and have not yet returned.
C33_GaugeCountsRunning ==
    activeWorkers = Cardinality({w \in Workers : pc[w] \notin {"unborn", "spawned", "done"}})

RECURSIVE Power(_, _)
\* b to the e
Power(b, e) == IF e = 0 THEN 1 ELSE b * Power(b, e - 1)

\* C34: with jitter disabled, the delay slept after failed attempt k, 1 <= k
\* < MaxAttempts, is min(InitialDelay * Multiplier^(k-1), MaxDelay), also
\* when InitialDelay > MaxDelay.
C34_BackoffFormula ==
    ~wr.cfg.Jitter =>
        /\ Len(wr.slept) = 0 \/ Len(wr.slept) < wr.cfg.MaxAttempts
        /\ \A k \in 1..Len(wr.slept) :
              wr.slept[k] = Min(wr.cfg.InitialDelay * Power(wr.cfg.Multiplier, k - 1),
                                wr.cfg.MaxDelay)

\* C35: in a scheduler with at least two ops of nonzero weight, every draw r
\* below the total weight selects the op whose cumulative bound is the least
\* one above r, so the draws that select an op are as many as its weight;
\* Next never returns an op of weight zero, and with one op of nonzero
\* weight it returns that op.
C35_WeightedSelection ==
    schedPC = "ready" =>
        /\ Len(sched.ops) >= 2 =>
              LET T == sched.weights[Len(sched.weights)]
              IN  /\ \A r \in 0..(T - 1) :
                        \E i \in 1..Len(sched.ops) :
                            /\ OpForDraw(sched, r) = sched.ops[i]
                            /\ r < sched.weights[i]
                            /\ i > 1 => r >= sched.weights[i - 1]
                  /\ \A o \in DOMAIN mixArg :
                        Cardinality({r \in 0..(T - 1) : OpForDraw(sched, r) = o})
                            = mixArg[o]
        /\ \A k \in 1..Len(emitted) :
              emitted[k].kind = "op" =>
                  /\ emitted[k].value \in DOMAIN mixArg
                  /\ mixArg[emitted[k].value] > 0
                  /\ Len(sched.ops) = 1 => emitted[k].value = sched.ops[1]

\* Next drew and returned an op of a scheduler made from a mix with two ops
\* of different positive weights and one of weight zero
C35_Witness ==
    /\ schedPC = "ready"
    /\ Len(sched.ops) = 2
    /\ sched.weights[1] # sched.weights[2] - sched.weights[1]
    /\ \E o \in DOMAIN mixArg : mixArg[o] = 0
    /\ \E k \in 1..Len(emitted) : emitted[k].kind = "op" /\ emitted[k].drew

\* C36: a template whose first {seq marker is never closed, or is closed
\* after a colon and a width that is not a positive integer, is rendered
\* with the unpadded decimal of seq: the key is not the template without the
\* sequence number, and for a closed marker the decimal stands in its place.
C36_MalformedMarkerDegrades ==
    keyOut # <<>> =>
        LET t      == kg.template
            starts == {i \in 1..Len(t) : t[i] = "{seq"}
        IN  starts # {} =>
              LET k      == CHOOSE i \in starts : \A j \in starts : i <= j
                  closes == {e \in (k + 1)..Len(t) : t[e] = "}"}
              IN  /\ closes = {} => keyOut # kg.prefix \o t
                  /\ closes # {} =>
                        LET e     == CHOOSE i \in closes : \A j \in closes : i <= j
                            width == SubSeq(t, k + 2, e - 1)
                        IN  (/\ t[k + 1] = ":"
                             /\ \/ width = <<>>
                                \/ \E j \in 1..Len(width) : width[j] \notin {"0", "3"}
                                \/ WidthOf(width) = 0) =>
                                keyOut = kg.prefix \o SubSeq(t, 1, k - 1)
                                            \o Decimal(keySeq)
                                            \o SubSeq(t, e + 1, Len(t))

\* C37: after a Seek from position q to a position p with q < p <= size,
\* the Seek has succeeded and the bytes read since are the bytes p, p+1, ...
\* that a fresh source for the same key and size delivers at those offsets.
C37_ForwardSeekYieldsSlice ==
    (seekFrom >= 0 /\ seekFrom < seekTarget /\ seekTarget <= stream.size) =>
        /\ seekErr = NilErr
        /\ stream.position = seekTarget + Len(streamOut)
        /\ \A i \in 1..Len(streamOut) : streamOut[i] = Payload[seekTarget + i]

\* C38: an operation the dispatcher has an executor for, and that is not a
\* DELETE under keep-data, has called the object store at least once when it
\* returns, whatever max-retries is; and it returns an error of WithRetry
\* only if one of its attempts failed.
C38_TriedAtLeastOnce ==
    (/\ traced \in Workers
     /\ ePC = "returned"
     /\ op[traced] \in Executors
     /\ ~(op[traced] = "delete" /\ execCfg.KeepData)) =>
        /\ Len(fnResults) >= 1
        /\ (opErr # NilErr /\ ~VerificationFailed) =>
              \E i \in 1..Len(fnResults) : fnResults[i] # NilErr

\* C39: every operation a worker has counted and dispatched is of one of the
\* seven kinds, and of a kind the switch of executeOp has an executor for.
C39_DispatchedOpsHandled ==
    \A w \in Workers :
        pc[w] = "exec" =>
            /\ op[w] \in OpTypes
            /\ op[w] \in Executors

\* C40: with maxFailures >= 1, a Call that is let through on an open breaker
\* whose resetTimeout has passed, or on a half-open breaker, and whose fn
\* fails, leaves the breaker open.
C40_FailedTrialReopens ==
    (/\ cbCall.made
     /\ cbCall.invoked
     /\ cbCall.fnErr # NilErr
     /\ cbCall.before.maxFailures >= 1
     /\ cbCall.before.state \in {StateOpen, StateHalfOpen}) =>
        cbCall.after.state = StateOpen

====
